---- MODULE Spec2Model ----
(***************************************************************************)
(* Model of the delivery-and-consistency core of the human-as-tool        *)
(* backend: the in-memory store, the feedback-request life cycle          *)
(* (session_service / state_sync), the multi-level rate limiter, the      *)
(* per-channel circuit breaker with retry (channels/base_channel) and     *)
(* the channel orchestrator.                                               *)
(*                                                                         *)
(* Every service method is a plain (non-async) function that is only ever *)
(* called from coroutines of one event loop, so one call is one atomic    *)
(* step and concurrency is the interleaving of whole calls.  The wall     *)
(* clock is an input: every datetime.now() reads the variable clock, and  *)
(* time may pass between two reads made by the same call.                 *)
(***************************************************************************)
EXTENDS Integers, Sequences, FiniteSets, TLC

VARIABLES
    clock,              \* datetime.now(timezone.utc), as a number of seconds
    ticks,              \* how many times the environment advanced the clock
    feedback_requests,  \* MemoryStore.feedback_requests: id -> FeedbackRequest
    feedback_responses, \* MemoryStore.feedback_responses: id -> FeedbackResponse
    request_responses,  \* MemoryStore.request_responses: request id -> response ids
    last_result,        \* what the latest submit/process call saw and returned
    calls,              \* how many submit/process calls were made
    tally,              \* per request id: first outcome, number of calls and of accepted calls
    status_writes,      \* per request id, how many times its status changed
    rate_limits,        \* MemoryStore.rate_limits: key -> list of timestamps
    accepted_at,        \* per key, the timestamps of every accepted check
    last_check,         \* outcome of the latest rate limiter call
    reset_hint,         \* per key, {reset_at} of the latest rejection no accepted check followed
    checks,             \* how many rate limiter calls were made
    circuit_breaker,    \* one CircuitBreaker object driven through its own methods
    breaker_obs,        \* what the calls on that breaker returned and what was recorded
    breaker_calls,      \* how many calls were made on that breaker
    channel_instances,  \* every BaseChannel object in use, in order of construction
    tasks,              \* the coroutines started on the channels, in order of their start
    user_channels,      \* ChannelOrchestrator.user_channels of the user: type -> instance
    connected,          \* the channel types whose stored connection lets initialize() succeed
    delivery_attempts,  \* MemoryStore.delivery_attempts: id -> DeliveryAttempt
    message_attempts,   \* MemoryStore.message_attempts: message id -> attempt ids
    sessions,           \* MemoryStore.sessions: id -> ChatSession
    messages,           \* MemoryStore.messages: id -> Message
    last_update,        \* what the latest SessionService call was asked and answered
    session_messages,   \* MemoryStore.session_messages: session id -> message ids
    channel_subscriptions, \* StateSyncService.channel_subscriptions: session id -> channels
    last_history,       \* the latest get_conversation_history call and what it returned
    agent_states,       \* MemoryStore.agent_states: session id -> AgentStatus
    socket              \* the live-socket connection of the user: its session, where its
                        \* handler is, and the frames the latest handler call sent

vars == <<clock, ticks, feedback_requests, feedback_responses, request_responses,
          last_result, calls, tally, status_writes, rate_limits, accepted_at, last_check,
          reset_hint, checks, circuit_breaker, breaker_obs, breaker_calls,
          channel_instances, tasks, user_channels, connected, delivery_attempts,
          message_attempts, sessions, messages, last_update, session_messages,
          channel_subscriptions, last_history, agent_states, socket>>

feedbackVars == <<feedback_requests, feedback_responses, request_responses,
                  last_result, calls, tally, status_writes>>

rateVars == <<rate_limits, accepted_at, last_check, reset_hint, checks>>

breakerVars == <<circuit_breaker, breaker_obs, breaker_calls>>

\* everything of the delivery path: breaker, channels, orchestrator
orchestratorVars == <<user_channels, connected, delivery_attempts, message_attempts>>

deliveryVars == <<breakerVars, channel_instances, tasks, orchestratorVars>>

socketVars == <<agent_states, socket>>

sessionVars == <<sessions, messages, last_update, session_messages,
                 channel_subscriptions, last_history, socketVars>>

\* what the SessionService calls on sessions and message status leave alone
syncVars == <<session_messages, channel_subscriptions, last_history, socketVars>>

-----------------------------------------------------------------------------
(* Bounds of the model *)

MaxRequests == 1
MaxCalls == 2
MaxTicks == 2
MaxRateTicks == 1
MaxChecks == 2
MaxBreakerCalls == 10
MaxBreakerTicks == 3
MaxRetryTicks == 1
MaxSendTicks == 1
MaxSessions == 1
MaxMessages == 1
MaxSyncTicks == 1

-----------------------------------------------------------------------------
(* Enumerations of models/base.py *)

PENDING == "pending"
APPROVED == "approved"
REJECTED == "rejected"
EXPIRED == "expired"

FeedbackStatus == {PENDING, APPROVED, REJECTED, EXPIRED}

APPROVAL == "approval"
INPUT == "input"

FeedbackType == {APPROVAL, INPUT}

ChannelType == {"websocket", "email", "slack"}

\* models/base.py: ChannelStatus
ACTIVE == "active"
INACTIVE == "inactive"
ERROR == "error"
RECONNECTING == "reconnecting"

ChannelStatus == {ACTIVE, INACTIVE, ERROR, RECONNECTING}

\* models/base.py: MessageStatus
SENT == "sent"
DELIVERED == "delivered"
READ == "read"
FAILED == "failed"

MessageStatus == {SENT, DELIVERED, READ, FAILED}

\* channels/base_channel.py: CircuitState
CLOSED == "closed"
OPEN == "open"
HALF_OPEN == "half_open"

CircuitState == {CLOSED, OPEN, HALF_OPEN}

\* CircuitBreaker.__init__ defaults; no channel is built with another configuration
failure_threshold == 5
timeout_seconds == 60
half_open_max_calls == 3

\* CircuitBreaker(): the object after construction; an Optional[datetime] is the
\* empty set (None) or the set of one time
CircuitBreaker ==
    [state |-> CLOSED, failure_count |-> 0, last_failure_time |-> {}, half_open_calls |-> 0]

\* nothing was called on the breaker yet
NoBreakerCall ==
    [op |-> "none", result |-> FALSE, streak |-> 0, failed_at |-> {}, admitted |-> 0,
     reopened_at |-> {}]

\* the delivery path before anything was called on it
DeliveryIdle ==
    /\ circuit_breaker = CircuitBreaker
    /\ breaker_obs = NoBreakerCall
    /\ breaker_calls = 0
    /\ channel_instances = <<>>
    /\ tasks = <<>>
    /\ user_channels = <<>>
    /\ connected = {}
    /\ delivery_attempts = <<>>
    /\ message_attempts = <<>>

\* no session and no message exists
SessionIdle ==
    /\ sessions = <<>>
    /\ messages = <<>>
    /\ last_update = [op |-> "none"]
    /\ session_messages = <<>>
    /\ channel_subscriptions = <<>>
    /\ last_history = [op |-> "none"]
    /\ agent_states = <<>>
    /\ socket = [session_id |-> 0, pc |-> "idle", sent |-> <<>>, stream |-> FALSE,
                 invoked |-> 0]

-----------------------------------------------------------------------------
(* Response contents: strings are sequences of one-character strings *)

LowerCase == <<"a", "b", "c", "d", "e", "f", "g", "h", "i", "j", "k", "l", "m",
               "n", "o", "p", "q", "r", "s", "t", "u", "v", "w", "x", "y", "z">>

UpperCase == <<"A", "B", "C", "D", "E", "F", "G", "H", "I", "J", "K", "L", "M",
               "N", "O", "P", "Q", "R", "S", "T", "U", "V", "W", "X", "Y", "Z">>

Whitespace == {" "}

IndexIn(ch, alphabet) ==
    IF \E i \in 1..Len(alphabet) : alphabet[i] = ch
    THEN CHOOSE i \in 1..Len(alphabet) : alphabet[i] = ch
    ELSE 0

UpperChar(ch) == IF IndexIn(ch, LowerCase) = 0 THEN ch ELSE UpperCase[IndexIn(ch, LowerCase)]

LowerChar(ch) == IF IndexIn(ch, UpperCase) = 0 THEN ch ELSE LowerCase[IndexIn(ch, UpperCase)]

\* str.upper()
Upper(s) == [i \in 1..Len(s) |-> UpperChar(s[i])]

\* str.lower()
Lower(s) == [i \in 1..Len(s) |-> LowerChar(s[i])]

RECURSIVE LStrip(_)
LStrip(s) == IF s # <<>> /\ Head(s) \in Whitespace THEN LStrip(Tail(s)) ELSE s

RECURSIVE RStrip(_)
RStrip(s) ==
    IF s # <<>> /\ s[Len(s)] \in Whitespace THEN RStrip(SubSeq(s, 1, Len(s) - 1)) ELSE s

\* str.strip()
Strip(s) == RStrip(LStrip(s))

\* the contents submitted by the callers of the model
Contents ==
    { <<>>, <<" ">>,
      <<"y", "e", "s">>,
      <<"N", "O">>,
      <<"A", "p", "p", "r", "o", "v", "e", "d">>,
      <<"r", "e", "j", "e", "c", "t">>,
      <<"o", "k">> }

-----------------------------------------------------------------------------
(* session_service.py / state_sync.py: the feedback request life cycle *)

FEEDBACK_TIMEOUT_HOURS == 48

SecondsPerHour == 3600

FeedbackTimeout == FEEDBACK_TIMEOUT_HOURS * SecondsPerHour

RequestIds == 1..MaxRequests

\* store.get_feedback_request(request_id) finds a request
Known(rid) == rid \in DOMAIN feedback_requests

\* store.get_request_responses(request_id)
get_request_responses(rid) ==
    IF rid \in DOMAIN request_responses
    THEN [i \in 1..Len(request_responses[rid]) |-> feedback_responses[request_responses[rid][i]]]
    ELSE <<>>

\* uuid4() of a new response: an id no stored response has
NewResponseId == Cardinality(DOMAIN feedback_responses) + 1

\* store.create_feedback_response(response): the two maps after the call
StoreResponse(response) ==
    [responses |-> feedback_responses @@ (response.id :> response),
     index |-> IF response.request_id \in DOMAIN request_responses
               THEN [request_responses EXCEPT ![response.request_id] = Append(@, response.id)]
               ELSE request_responses @@ (response.request_id :> <<response.id>>)]

\* state_sync.process_feedback_response: status chosen from the content
ApprovalWords == { <<"A", "P", "P", "R", "O", "V", "E">>,
                   <<"A", "P", "P", "R", "O", "V", "E", "D">>,
                   <<"Y", "E", "S">> }

RejectionWords == { <<"R", "E", "J", "E", "C", "T">>,
                    <<"R", "E", "J", "E", "C", "T", "E", "D">>,
                    <<"N", "O">> }

\* the same choice made without folding the case of the content
StatusFromContentCaseSensitive(content) ==
    IF content \in ApprovalWords THEN APPROVED
    ELSE IF content \in RejectionWords THEN REJECTED
    ELSE APPROVED

StatusFromContent(content) ==
    IF Upper(content) \in ApprovalWords THEN APPROVED
    ELSE IF Upper(content) \in RejectionWords THEN REJECTED
    ELSE APPROVED

\* session_service.submit_feedback_response: status chosen from type and content
SubmitApprovalWords == { <<"y", "e", "s">>,
                         <<"a", "p", "p", "r", "o", "v", "e">>,
                         <<"a", "p", "p", "r", "o", "v", "e", "d">>,
                         <<"c", "o", "n", "f", "i", "r", "m">> }

SubmitStatus(type, content) ==
    IF type = APPROVAL
    THEN IF Lower(content) \in SubmitApprovalWords THEN APPROVED ELSE REJECTED
    ELSE APPROVED

\* FeedbackResponseValidator.validate_create passes
ValidResponse(response, request_status) ==
    /\ response.request_id # 0
    /\ response.content # <<>> /\ Strip(response.content) # <<>>
    /\ request_status = PENDING

\* the call returns accepted to its caller; the tally of the request keeps how
\* the first call that found the request found it, and counts calls and accepted calls
Return(op, rid, content, accepted) ==
    /\ last_result' = [op |-> op, rid |-> rid, accepted |-> accepted]
    /\ calls' = calls + 1
    /\ tally' = IF ~Known(rid) THEN tally
                ELSE [tally EXCEPT ![rid] =
                        [first |-> IF @.submitted = 0
                                   THEN [pending |-> feedback_requests[rid].status = PENDING,
                                         expired |-> feedback_requests[rid].expires_at < clock,
                                         blank |-> Strip(content) = <<>>]
                                   ELSE @.first,
                         submitted |-> @.submitted + 1,
                         accepted |-> @.accepted + (IF accepted THEN 1 ELSE 0)]]

\* the status of request rid becomes s
SetStatus(rid, s) ==
    /\ feedback_requests' = [feedback_requests EXCEPT ![rid].status = s]
    /\ status_writes' = [status_writes EXCEPT ![rid] =
                            IF feedback_requests[rid].status = s THEN @ ELSE @ + 1]

\* SessionService.create_feedback_request
CreateFeedbackRequest(type) ==
    /\ Cardinality(DOMAIN feedback_requests) < MaxRequests
    /\ LET rid == Cardinality(DOMAIN feedback_requests) + 1
       IN  feedback_requests' = feedback_requests @@
               (rid :> [type |-> type, status |-> PENDING,
                        expires_at |-> clock + FeedbackTimeout])
    /\ UNCHANGED <<clock, ticks, feedback_responses, request_responses, last_result,
                   calls, tally, status_writes>>
    /\ UNCHANGED rateVars
    /\ UNCHANGED <<deliveryVars, sessionVars>>

\* SessionService.submit_feedback_response
SubmitFeedbackResponse(rid, content, channel) ==
    /\ calls < MaxCalls
    /\ LET response == [id |-> NewResponseId, request_id |-> rid, content |-> content,
                        channel |-> channel]
       IN  IF ~Known(rid)
           THEN \* ValidationError: not found
                /\ Return("submit", rid, content, FALSE)
                /\ UNCHANGED <<feedback_requests, status_writes, feedback_responses,
                               request_responses>>
           ELSE IF feedback_requests[rid].status # PENDING
           THEN \* ValidationError: already processed
                /\ Return("submit", rid, content, FALSE)
                /\ UNCHANGED <<feedback_requests, status_writes, feedback_responses,
                               request_responses>>
           ELSE IF feedback_requests[rid].expires_at < clock
           THEN \* the request is flipped to EXPIRED, then ValidationError
                /\ SetStatus(rid, EXPIRED)
                /\ Return("submit", rid, content, FALSE)
                /\ UNCHANGED <<feedback_responses, request_responses>>
           ELSE IF ~ValidResponse(response, feedback_requests[rid].status)
           THEN \* ValidationError of FeedbackResponseValidator
                /\ Return("submit", rid, content, FALSE)
                /\ UNCHANGED <<feedback_requests, status_writes, feedback_responses,
                               request_responses>>
           ELSE /\ feedback_responses' = StoreResponse(response).responses
                /\ request_responses' = StoreResponse(response).index
                /\ SetStatus(rid, SubmitStatus(feedback_requests[rid].type, content))
                /\ Return("submit", rid, content, TRUE)
    /\ UNCHANGED <<clock, ticks>>
    /\ UNCHANGED rateVars
    /\ UNCHANGED <<deliveryVars, sessionVars>>

\* the same call without the already-processed and first-response checks
ProcessFeedbackResponseAcceptsAll(rid, content, channel) ==
    /\ calls < MaxCalls
    /\ LET response == [id |-> NewResponseId, request_id |-> rid, content |-> content,
                        channel |-> channel]
       IN  IF ~Known(rid)
           THEN /\ Return("process", rid, content, FALSE)
                /\ UNCHANGED <<feedback_requests, status_writes, feedback_responses,
                               request_responses>>
           ELSE /\ feedback_responses' = StoreResponse(response).responses
                /\ request_responses' = StoreResponse(response).index
                /\ SetStatus(rid, StatusFromContent(content))
                /\ Return("process", rid, content, TRUE)
    /\ UNCHANGED <<clock, ticks>>
    /\ UNCHANGED rateVars
    /\ UNCHANGED <<deliveryVars, sessionVars>>

\* the same call storing the response of a known request before any check
ProcessFeedbackResponseStoresFirst(rid, content, channel) ==
    /\ calls < MaxCalls
    /\ LET response == [id |-> NewResponseId, request_id |-> rid, content |-> content,
                        channel |-> channel]
       IN  IF ~Known(rid)
           THEN /\ Return("process", rid, content, FALSE)
                /\ UNCHANGED <<feedback_requests, status_writes, feedback_responses,
                               request_responses>>
           ELSE /\ feedback_responses' = StoreResponse(response).responses
                /\ request_responses' = StoreResponse(response).index
                /\ IF feedback_requests[rid].status = PENDING
                      /\ get_request_responses(rid) = <<>>
                   THEN /\ SetStatus(rid, StatusFromContent(content))
                        /\ Return("process", rid, content, TRUE)
                   ELSE /\ Return("process", rid, content, FALSE)
                        /\ UNCHANGED <<feedback_requests, status_writes>>
    /\ UNCHANGED <<clock, ticks>>
    /\ UNCHANGED rateVars
    /\ UNCHANGED <<deliveryVars, sessionVars>>

\* StateSyncService.process_feedback_response
ProcessFeedbackResponse(rid, content, channel) ==
    /\ calls < MaxCalls
    /\ LET response == [id |-> NewResponseId, request_id |-> rid, content |-> content,
                        channel |-> channel]
       IN  IF ~Known(rid)
           THEN \* not found
                /\ Return("process", rid, content, FALSE)
                /\ UNCHANGED <<feedback_requests, status_writes, feedback_responses,
                               request_responses>>
           ELSE IF feedback_requests[rid].status # PENDING
           THEN \* already processed
                /\ Return("process", rid, content, FALSE)
                /\ UNCHANGED <<feedback_requests, status_writes, feedback_responses,
                               request_responses>>
           ELSE IF get_request_responses(rid) = <<>>
           THEN \* the first response is stored and decides the status
                /\ feedback_responses' = StoreResponse(response).responses
                /\ request_responses' = StoreResponse(response).index
                /\ SetStatus(rid, StatusFromContent(content))
                /\ Return("process", rid, content, TRUE)
           ELSE \* a response already exists: this one is dropped
                /\ Return("process", rid, content, FALSE)
                /\ UNCHANGED <<feedback_requests, status_writes, feedback_responses,
                               request_responses>>
    /\ UNCHANGED <<clock, ticks>>
    /\ UNCHANGED rateVars
    /\ UNCHANGED <<deliveryVars, sessionVars>>

\* the same sweep without the PENDING test
ExpireOldFeedbackRequestsAnyStatus ==
    /\ \E rid \in DOMAIN feedback_requests :
          feedback_requests[rid].status # EXPIRED /\ feedback_requests[rid].expires_at < clock
    /\ feedback_requests' =
          [rid \in DOMAIN feedback_requests |->
              IF feedback_requests[rid].expires_at < clock
              THEN [feedback_requests[rid] EXCEPT !.status = EXPIRED]
              ELSE feedback_requests[rid]]
    /\ status_writes' =
          [rid \in DOMAIN status_writes |->
              IF rid \in DOMAIN feedback_requests
                 /\ feedback_requests[rid].status # EXPIRED
                 /\ feedback_requests[rid].expires_at < clock
              THEN status_writes[rid] + 1
              ELSE status_writes[rid]]
    /\ UNCHANGED <<clock, ticks, feedback_responses, request_responses, last_result,
                   calls, tally>>
    /\ UNCHANGED rateVars
    /\ UNCHANGED <<deliveryVars, sessionVars>>

\* SessionService.expire_old_feedback_requests
ExpireOldFeedbackRequests ==
    /\ \E rid \in DOMAIN feedback_requests :
          feedback_requests[rid].status = PENDING /\ feedback_requests[rid].expires_at < clock
    /\ feedback_requests' =
          [rid \in DOMAIN feedback_requests |->
              IF feedback_requests[rid].status = PENDING
                 /\ feedback_requests[rid].expires_at < clock
              THEN [feedback_requests[rid] EXCEPT !.status = EXPIRED]
              ELSE feedback_requests[rid]]
    /\ status_writes' =
          [rid \in DOMAIN status_writes |->
              IF rid \in DOMAIN feedback_requests
                 /\ feedback_requests[rid].status = PENDING
                 /\ feedback_requests[rid].expires_at < clock
              THEN status_writes[rid] + 1
              ELSE status_writes[rid]]
    /\ UNCHANGED <<clock, ticks, feedback_responses, request_responses, last_result,
                   calls, tally>>
    /\ UNCHANGED rateVars
    /\ UNCHANGED <<deliveryVars, sessionVars>>

\* the channel the replies of the model arrive on
ReplyChannels == {"email"}

\* time passes between two calls of the feedback services
FeedbackTickSteps == {1, FeedbackTimeout}

TickFeedback(d) ==
    /\ ticks < MaxTicks
    /\ clock' = clock + d
    /\ ticks' = ticks + 1
    /\ UNCHANGED feedbackVars
    /\ UNCHANGED rateVars
    /\ UNCHANGED <<deliveryVars, sessionVars>>

-----------------------------------------------------------------------------

Init ==
    /\ clock = 0
    /\ ticks = 0
    /\ feedback_requests = <<>>
    /\ feedback_responses = <<>>
    /\ request_responses = <<>>
    /\ last_result = [op |-> "none"]
    /\ calls = 0
    /\ tally = [rid \in RequestIds |-> [first |-> "none", submitted |-> 0, accepted |-> 0]]
    /\ status_writes = [rid \in RequestIds |-> 0]
    /\ rate_limits = <<>>
    /\ accepted_at = <<>>
    /\ last_check = [op |-> "none"]
    /\ reset_hint = <<>>
    /\ checks = 0
    /\ DeliveryIdle
    /\ SessionIdle

NextFeedback ==
    \/ \E type \in FeedbackType : CreateFeedbackRequest(type)
    \/ \E rid \in RequestIds, content \in Contents, channel \in ReplyChannels :
          SubmitFeedbackResponse(rid, content, channel)
    \/ \E rid \in RequestIds, content \in Contents, channel \in ReplyChannels :
          ProcessFeedbackResponse(rid, content, channel)
    \/ ExpireOldFeedbackRequests
    \/ \E d \in FeedbackTickSteps : TickFeedback(d)

SpecFeedback == Init /\ [][NextFeedback]_vars

-----------------------------------------------------------------------------
(* The two ways a response resolves a request, side by side: two requests of *)
(* one type created at the same time, the first answered through            *)
(* session_service.submit_feedback_response and the second through          *)
(* state_sync.process_feedback_response.                                    *)

TwinRequests == {1, 2}

\* create_feedback_request was called twice with the same type
InitTwins ==
    /\ clock = 0
    /\ ticks = 0
    /\ \E type \in FeedbackType :
          feedback_requests = [rid \in TwinRequests |->
                                 [type |-> type, status |-> PENDING,
                                  expires_at |-> FeedbackTimeout]]
    /\ feedback_responses = <<>>
    /\ request_responses = <<>>
    /\ last_result = [op |-> "none"]
    /\ calls = 0
    /\ tally = [rid \in TwinRequests |-> [first |-> "none", submitted |-> 0, accepted |-> 0]]
    /\ status_writes = [rid \in TwinRequests |-> 0]
    /\ rate_limits = <<>>
    /\ accepted_at = <<>>
    /\ last_check = [op |-> "none"]
    /\ reset_hint = <<>>
    /\ checks = 0
    /\ DeliveryIdle
    /\ SessionIdle

NextTwins ==
    \/ \E content \in Contents, channel \in ReplyChannels :
          SubmitFeedbackResponse(1, content, channel)
    \/ \E content \in Contents, channel \in ReplyChannels :
          ProcessFeedbackResponse(2, content, channel)

SpecTwins == InitTwins /\ [][NextTwins]_vars

-----------------------------------------------------------------------------
(* storage/memory_store.py and services/rate_limiter.py: the rate limiter *)

USER_LIMIT == 30
SESSION_LIMIT == 10
CHANNEL_LIMIT == 20
WINDOW_SECONDS == 60

None == "None"

Users == {"u1"}
Sessions == {"s1"}
RateChannels == {"websocket"}

Max(a, b) == IF a >= b THEN a ELSE b

\* min() of a non-empty list of timestamps
Oldest(stamps) == CHOOSE t \in {stamps[i] : i \in 1..Len(stamps)} :
                      \A i \in 1..Len(stamps) : t <= stamps[i]

\* the timestamps of a list that are newer than the cutoff
NewerThan(stamps, cutoff) == SelectSeq(stamps, LAMBDA ts : ts > cutoff)

\* RateLimiter._get_rate_limit_key
get_rate_limit_key(level, identifier) == <<"rate_limit", level, identifier>>

UserKey(user) == get_rate_limit_key("user", user)
SessionKey(session) == get_rate_limit_key("session", session)
ChannelKey(channel, user) == get_rate_limit_key("channel", <<channel, user>>)

\* MemoryStore.check_rate_limit on the map rl, the clock reading now:
\* the value returned and the map after the call
check_rate_limit(rl, key, limit, window_seconds, now) ==
    LET cleaned == IF key \in DOMAIN rl
                   THEN [rl EXCEPT ![key] = NewerThan(@, now - window_seconds)]
                   ELSE rl @@ (key :> <<>>)
    IN  IF Len(cleaned[key]) >= limit
        THEN [allowed |-> FALSE, rate_limits |-> cleaned]
        ELSE [allowed |-> TRUE, rate_limits |-> [cleaned EXCEPT ![key] = Append(@, now)]]

\* MemoryStore.get_rate_limit_status on the map rl, the clock reading now
get_rate_limit_status(rl, key, limit, window_seconds, now) ==
    LET valid_timestamps == IF key \in DOMAIN rl
                            THEN NewerThan(rl[key], now - window_seconds)
                            ELSE <<>>
    IN  [limit |-> limit,
         remaining |-> Max(0, limit - Len(valid_timestamps)),
         reset_at |-> IF valid_timestamps # <<>>
                      THEN Oldest(valid_timestamps) + window_seconds
                      ELSE now + window_seconds,
         window_seconds |-> window_seconds]

\* the body shared by check_user_limit, check_session_limit and check_channel_limit:
\* check_rate_limit reads the clock as now, get_rate_limit_status reads it again as
\* later; allowed FALSE stands for RateLimitExceeded carrying the status
check_limit(rl, key, limit, now, later) ==
    LET checked == check_rate_limit(rl, key, limit, WINDOW_SECONDS, now)
    IN  [key |-> key,
         allowed |-> checked.allowed,
         rate_limits |-> checked.rate_limits,
         status |-> get_rate_limit_status(checked.rate_limits, key, limit, WINDOW_SECONDS, later),
         at |-> now]

\* RateLimiter.check_user_limit
check_user_limit(rl, user, now, later) ==
    check_limit(rl, UserKey(user), USER_LIMIT, now, later)

\* RateLimiter.check_session_limit
check_session_limit(rl, session, now, later) ==
    check_limit(rl, SessionKey(session), SESSION_LIMIT, now, later)

\* RateLimiter.check_channel_limit
check_channel_limit(rl, channel, user, now, later) ==
    check_limit(rl, ChannelKey(channel, user), CHANNEL_LIMIT, now, later)

\* the limit of the level a key belongs to
LimitOf(key) ==
    IF key[2] = "user" THEN USER_LIMIT
    ELSE IF key[2] = "session" THEN SESSION_LIMIT
    ELSE CHANNEL_LIMIT

RateKeys == {UserKey(u) : u \in Users} \cup {SessionKey(s) : s \in Sessions}
            \cup {ChannelKey(c, u) : c \in RateChannels, u \in Users}

\* how many accepted checks of a key have their timestamp in the window (t - w, t]
AcceptedInWindow(key, t) ==
    Cardinality({i \in 1..Len(accepted_at[key]) :
                    accepted_at[key][i] > t - WINDOW_SECONDS /\ accepted_at[key][i] <= t})

\* what the caller of one level check observes, with what was known when it arrived:
\* whether the window then held limit accepted checks, and the reset_at (hint) of the
\* latest rejection of the key that no accepted check has followed (as a set: empty
\* when there is none)
Observed(check, hints) ==
    [key |-> check.key, allowed |-> check.allowed, at |-> check.at,
     remaining |-> check.status.remaining, reset_at |-> check.status.reset_at,
     full |-> AcceptedInWindow(check.key, check.at) >= LimitOf(check.key),
     hint |-> hints[check.key]]

\* the hints after a level check: an accepted check clears the hint of its key, a
\* rejected one sets it to the reset_at it reports
HintsAfter(check, hints) ==
    [hints EXCEPT ![check.key] = IF check.allowed THEN {} ELSE {check.status.reset_at}]

\* the accepted timestamps after a level check
AcceptedAfter(check, acc) ==
    IF check.allowed THEN [acc EXCEPT ![check.key] = Append(@, check.at)] ELSE acc

\* the calls of one level, as made by a caller
CheckLevel(op, check, later) ==
    /\ checks < MaxChecks
    /\ rate_limits' = check.rate_limits
    /\ accepted_at' = AcceptedAfter(check, accepted_at)
    /\ reset_hint' = HintsAfter(check, reset_hint)
    /\ last_check' = [op |-> op, allowed |-> check.allowed,
                      rejected_by |-> IF check.allowed THEN None ELSE check.key[2],
                      levels |-> <<Observed(check, reset_hint)>>]
    /\ checks' = checks + 1
    /\ clock' = later
    /\ UNCHANGED ticks
    /\ UNCHANGED feedbackVars
    /\ UNCHANGED <<deliveryVars, sessionVars>>

CheckUserLimit(user, drift) ==
    CheckLevel("check_user", check_user_limit(rate_limits, user, clock, clock + drift),
               clock + drift)

CheckSessionLimit(session, drift) ==
    CheckLevel("check_session", check_session_limit(rate_limits, session, clock, clock + drift),
               clock + drift)

CheckChannelLimit(channel, user, drift) ==
    CheckLevel("check_channel",
               check_channel_limit(rate_limits, channel, user, clock, clock + drift),
               clock + drift)

\* the same call evaluating the three levels whatever the earlier ones answered
CheckAllLimitsNoStop(user, session, channel, d1, d2, d3) ==
    /\ checks < MaxChecks
    /\ LET t1 == clock + d1
           t2 == t1 + d2
           t3 == t2 + d3
           u == check_user_limit(rate_limits, user, clock, t1)
           s == check_session_limit(u.rate_limits, session, t1, t2)
           c == check_channel_limit(s.rate_limits, channel, user, t2, t3)
           h1 == HintsAfter(u, reset_hint)
           h2 == HintsAfter(s, h1)
       IN  /\ rate_limits' = c.rate_limits
           /\ accepted_at' = AcceptedAfter(c, AcceptedAfter(s, AcceptedAfter(u, accepted_at)))
           /\ reset_hint' = HintsAfter(c, h2)
           /\ last_check' = [op |-> "check_all",
                             args |-> <<user, session, channel>>,
                             allowed |-> u.allowed /\ s.allowed /\ c.allowed,
                             rejected_by |-> IF ~u.allowed THEN "user"
                                             ELSE IF ~s.allowed THEN "session"
                                             ELSE IF ~c.allowed THEN "channel" ELSE None,
                             levels |-> <<Observed(u, reset_hint), Observed(s, h1),
                                          Observed(c, h2)>>]
           /\ clock' = t3
    /\ checks' = checks + 1
    /\ UNCHANGED ticks
    /\ UNCHANGED feedbackVars
    /\ UNCHANGED <<deliveryVars, sessionVars>>

\* RateLimiter.check_all_limits: user, then session, then channel; the first
\* level that raises ends the call.  d1, d2, d3: the time that passes between the
\* two clock readings of each level
CheckAllLimits(user, session, channel, d1, d2, d3) ==
    /\ checks < MaxChecks
    /\ LET t1 == clock + d1
           t2 == t1 + d2
           t3 == t2 + d3
           u == check_user_limit(rate_limits, user, clock, t1)
           s == check_session_limit(u.rate_limits, session, t1, t2)
           c == check_channel_limit(s.rate_limits, channel, user, t2, t3)
           h1 == HintsAfter(u, reset_hint)
           h2 == HintsAfter(s, h1)
       IN  IF ~u.allowed
           THEN /\ d2 = 0 /\ d3 = 0
                /\ rate_limits' = u.rate_limits
                /\ accepted_at' = accepted_at
                /\ reset_hint' = h1
                /\ last_check' = [op |-> "check_all", args |-> <<user, session, channel>>,
                                  allowed |-> FALSE, rejected_by |-> "user",
                                  levels |-> <<Observed(u, reset_hint)>>]
                /\ clock' = t1
           ELSE IF ~s.allowed
           THEN /\ d3 = 0
                /\ rate_limits' = s.rate_limits
                /\ accepted_at' = AcceptedAfter(u, accepted_at)
                /\ reset_hint' = h2
                /\ last_check' = [op |-> "check_all", args |-> <<user, session, channel>>,
                                  allowed |-> FALSE, rejected_by |-> "session",
                                  levels |-> <<Observed(u, reset_hint), Observed(s, h1)>>]
                /\ clock' = t2
           ELSE /\ rate_limits' = c.rate_limits
                /\ accepted_at' = AcceptedAfter(c, AcceptedAfter(s, AcceptedAfter(u, accepted_at)))
                /\ reset_hint' = HintsAfter(c, h2)
                /\ last_check' = [op |-> "check_all", args |-> <<user, session, channel>>,
                                  allowed |-> c.allowed,
                                  rejected_by |-> IF c.allowed THEN None ELSE "channel",
                                  levels |-> <<Observed(u, reset_hint), Observed(s, h1),
                                               Observed(c, h2)>>]
                /\ clock' = t3
    /\ checks' = checks + 1
    /\ UNCHANGED ticks
    /\ UNCHANGED feedbackVars
    /\ UNCHANGED <<deliveryVars, sessionVars>>

\* the same call built on the checking call of the store
GetStatusByChecking(user, session, channel) ==
    /\ checks < MaxChecks
    /\ LET u == check_user_limit(rate_limits, user, clock, clock)
           s == IF session # None
                THEN check_session_limit(u.rate_limits, session, clock, clock)
                ELSE [u EXCEPT !.status = None]
           c == IF channel # None
                THEN check_channel_limit(s.rate_limits, channel, user, clock, clock)
                ELSE [s EXCEPT !.status = None]
       IN  /\ rate_limits' = c.rate_limits
           /\ last_check' = [op |-> "get_status", args |-> <<user, session, channel>>,
                             result |-> [user |-> u.status, session |-> s.status,
                                         channel |-> c.status]]
    /\ checks' = checks + 1
    /\ UNCHANGED <<clock, ticks, accepted_at, reset_hint>>
    /\ UNCHANGED feedbackVars
    /\ UNCHANGED <<deliveryVars, sessionVars>>

\* RateLimiter.get_status; session and channel are optional
GetStatus(user, session, channel) ==
    /\ checks < MaxChecks
    /\ last_check' =
         [op |-> "get_status", args |-> <<user, session, channel>>,
          result |->
            [user |-> get_rate_limit_status(rate_limits, UserKey(user), USER_LIMIT,
                                            WINDOW_SECONDS, clock),
             session |-> IF session # None
                         THEN get_rate_limit_status(rate_limits, SessionKey(session),
                                                    SESSION_LIMIT, WINDOW_SECONDS, clock)
                         ELSE None,
             channel |-> IF channel # None
                         THEN get_rate_limit_status(rate_limits, ChannelKey(channel, user),
                                                    CHANNEL_LIMIT, WINDOW_SECONDS, clock)
                         ELSE None]]
    /\ checks' = checks + 1
    /\ UNCHANGED <<clock, ticks, rate_limits, accepted_at, reset_hint>>
    /\ UNCHANGED feedbackVars
    /\ UNCHANGED <<deliveryVars, sessionVars>>

\* the time that may pass between two clock readings of one call
Drifts == {0, 1}

\* time passes between two calls of the rate limiter
RateTickSteps == {1, WINDOW_SECONDS - 1}

TickRate(d) ==
    /\ ticks < MaxRateTicks
    /\ clock' = clock + d
    /\ ticks' = ticks + 1
    /\ UNCHANGED feedbackVars
    /\ UNCHANGED rateVars
    /\ UNCHANGED <<deliveryVars, sessionVars>>

\* a list of n timestamps t
Stamps(n, t) == [i \in 1..n |-> t]

\* how many checks the user, session and channel levels may have accepted when the
\* model starts: none at all, or each level one short of its limit or at it
Fills ==
    {<<0, 0, 0>>} \cup
    ({USER_LIMIT - 1, USER_LIMIT} \X {SESSION_LIMIT - 1, SESSION_LIMIT}
        \X {CHANNEL_LIMIT - 1, CHANNEL_LIMIT})

\* the rate limiter after f[1], f[2] and f[3] checks were accepted at time 0 on the
\* keys of the user, the session and the channel
InitRate ==
    /\ clock = 0
    /\ ticks = 0
    /\ feedback_requests = <<>>
    /\ feedback_responses = <<>>
    /\ request_responses = <<>>
    /\ last_result = [op |-> "none"]
    /\ calls = 0
    /\ tally = [rid \in RequestIds |-> [first |-> "none", submitted |-> 0, accepted |-> 0]]
    /\ status_writes = [rid \in RequestIds |-> 0]
    /\ \E f \in Fills :
          /\ accepted_at = [key \in RateKeys |->
                               Stamps(IF key[2] = "user" THEN f[1]
                                      ELSE IF key[2] = "session" THEN f[2] ELSE f[3], 0)]
          /\ rate_limits = [key \in {k \in RateKeys : accepted_at[k] # <<>>} |-> accepted_at[key]]
    /\ last_check = [op |-> "none"]
    /\ reset_hint = [key \in RateKeys |-> {}]
    /\ checks = 0
    /\ DeliveryIdle
    /\ SessionIdle

NextRate ==
    \/ \E user \in Users, drift \in Drifts : CheckUserLimit(user, drift)
    \/ \E session \in Sessions, drift \in Drifts : CheckSessionLimit(session, drift)
    \/ \E channel \in RateChannels, user \in Users, drift \in Drifts :
          CheckChannelLimit(channel, user, drift)
    \/ \E user \in Users, session \in Sessions, channel \in RateChannels,
          d1 \in Drifts, d2 \in Drifts, d3 \in Drifts :
          CheckAllLimits(user, session, channel, d1, d2, d3)
    \/ \E user \in Users, optional \in (Sessions \X RateChannels) \cup {<<None, None>>} :
          GetStatus(user, optional[1], optional[2])
    \/ \E d \in RateTickSteps : TickRate(d)

SpecRate == InitRate /\ [][NextRate]_vars

-----------------------------------------------------------------------------
(* channels/base_channel.py: the circuit breaker *)

\* CircuitBreaker.can_execute() at time now: the breaker after the call and the
\* value returned
can_execute_strict(cb, now) ==
    IF cb.state = CLOSED THEN [cb |-> cb, result |-> TRUE]
    ELSE IF cb.state = OPEN
    THEN IF \E t \in cb.last_failure_time : now - t > timeout_seconds
         THEN [cb |-> [cb EXCEPT !.state = HALF_OPEN, !.half_open_calls = 0],
               result |-> TRUE]
         ELSE [cb |-> cb, result |-> FALSE]
    ELSE [cb |-> cb, result |-> cb.half_open_calls < half_open_max_calls]

can_execute(cb, now) ==
    IF cb.state = CLOSED THEN [cb |-> cb, result |-> TRUE]
    ELSE IF cb.state = OPEN
    THEN IF \E t \in cb.last_failure_time : now - t >= timeout_seconds
         THEN [cb |-> [cb EXCEPT !.state = HALF_OPEN, !.half_open_calls = 0],
               result |-> TRUE]
         ELSE [cb |-> cb, result |-> FALSE]
    ELSE IF cb.state = HALF_OPEN
    THEN [cb |-> cb, result |-> cb.half_open_calls < half_open_max_calls]
    ELSE [cb |-> cb, result |-> FALSE]

\* CircuitBreaker.record_success()
record_success(cb) ==
    IF cb.state = HALF_OPEN
    THEN [cb EXCEPT !.state = CLOSED, !.failure_count = 0, !.half_open_calls = 0]
    ELSE IF cb.state = CLOSED
    THEN [cb EXCEPT !.failure_count = 0]
    ELSE cb

\* the last statement of record_failure(): it reads the state the branches above left
CountHalfOpenCall(cb) ==
    IF cb.state = HALF_OPEN
    THEN [cb EXCEPT !.half_open_calls = @ + 1]
    ELSE cb

\* record_failure() opening a CLOSED breaker one failure late
record_failure_late(cb, now) ==
    LET counted == [cb EXCEPT !.failure_count = @ + 1, !.last_failure_time = {now}]
    IN  CountHalfOpenCall(
            IF counted.state = HALF_OPEN
            THEN [counted EXCEPT !.state = OPEN, !.half_open_calls = 0]
            ELSE IF counted.state = CLOSED /\ counted.failure_count > failure_threshold
            THEN [counted EXCEPT !.state = OPEN]
            ELSE counted)

\* record_failure() that leaves a HALF_OPEN breaker to the failure count
record_failure_by_count(cb, now) ==
    LET counted == [cb EXCEPT !.failure_count = @ + 1, !.last_failure_time = {now}]
    IN  CountHalfOpenCall(
            IF counted.state = CLOSED /\ counted.failure_count >= failure_threshold
            THEN [counted EXCEPT !.state = OPEN]
            ELSE counted)

\* CircuitBreaker.record_failure() at time now
record_failure(cb, now) ==
    LET counted == [cb EXCEPT !.failure_count = @ + 1, !.last_failure_time = {now}]
    IN  CountHalfOpenCall(
            IF counted.state = HALF_OPEN
            THEN [counted EXCEPT !.state = OPEN, !.half_open_calls = 0]
            ELSE IF counted.state = CLOSED /\ counted.failure_count >= failure_threshold
            THEN [counted EXCEPT !.state = OPEN]
            ELSE counted)

\* what an observer of the calls knows after one of them left the breaker in state
\* after: the failures recorded since the last recorded success, the time of the
\* last recorded failure, the calls admitted since the breaker became HALF_OPEN and
\* the time of the failure that reopened it
ObserveBreaker(op, result, before, after, failed) ==
    [op |-> op,
     result |-> result,
     streak |-> IF op = "record_success" THEN 0
                ELSE IF failed THEN breaker_obs.streak + 1 ELSE breaker_obs.streak,
     failed_at |-> IF failed THEN {clock} ELSE breaker_obs.failed_at,
     admitted |-> IF after.state # HALF_OPEN THEN 0
                  ELSE IF op = "can_execute" /\ result
                  THEN (IF before.state = HALF_OPEN THEN breaker_obs.admitted + 1 ELSE 1)
                  ELSE breaker_obs.admitted,
     reopened_at |-> IF after.state # OPEN THEN {}
                     ELSE IF failed /\ before.state = HALF_OPEN THEN {clock}
                     ELSE breaker_obs.reopened_at]

\* a caller asks the breaker whether it may execute
CanExecute ==
    /\ breaker_calls < MaxBreakerCalls
    /\ LET r == can_execute(circuit_breaker, clock)
       IN  /\ circuit_breaker' = r.cb
           /\ breaker_obs' = ObserveBreaker("can_execute", r.result, circuit_breaker, r.cb, FALSE)
    /\ breaker_calls' = breaker_calls + 1
    /\ UNCHANGED <<clock, ticks, channel_instances, tasks, orchestratorVars>>
    /\ UNCHANGED <<feedbackVars, rateVars, sessionVars>>

\* a caller reports that its execution succeeded
RecordSuccess ==
    /\ breaker_calls < MaxBreakerCalls
    /\ LET after == record_success(circuit_breaker)
       IN  /\ circuit_breaker' = after
           /\ breaker_obs' = ObserveBreaker("record_success", FALSE, circuit_breaker, after, FALSE)
    /\ breaker_calls' = breaker_calls + 1
    /\ UNCHANGED <<clock, ticks, channel_instances, tasks, orchestratorVars>>
    /\ UNCHANGED <<feedbackVars, rateVars, sessionVars>>

\* a caller reports that its execution failed
RecordFailure ==
    /\ breaker_calls < MaxBreakerCalls
    /\ LET after == record_failure(circuit_breaker, clock)
       IN  /\ circuit_breaker' = after
           /\ breaker_obs' = ObserveBreaker("record_failure", FALSE, circuit_breaker, after, TRUE)
    /\ breaker_calls' = breaker_calls + 1
    /\ UNCHANGED <<clock, ticks, channel_instances, tasks, orchestratorVars>>
    /\ UNCHANGED <<feedbackVars, rateVars, sessionVars>>

\* time passes: one second, or one second less than the breaker's timeout
BreakerTickSteps == {1, timeout_seconds - 1}

TickBreaker(d) ==
    /\ ticks < MaxBreakerTicks
    /\ clock' = clock + d
    /\ ticks' = ticks + 1
    /\ UNCHANGED <<feedbackVars, rateVars, sessionVars>>
    /\ UNCHANGED <<deliveryVars, sessionVars>>

NextBreaker ==
    \/ CanExecute
    \/ RecordSuccess
    \/ RecordFailure
    \/ \E d \in BreakerTickSteps : TickBreaker(d)

SpecBreaker == Init /\ [][NextBreaker]_vars

-----------------------------------------------------------------------------
(* channels/base_channel.py: BaseChannel and execute_with_retry.  The awaited  *)
(* provider operation and the backoff sleep are the two places where a call    *)
(* is suspended and other coroutines run.                                      *)

\* BaseChannel.__init__(channel_type): the object after construction
BaseChannel(channel_type) ==
    [channel_type |-> channel_type, status |-> INACTIVE, circuit_breaker |-> CircuitBreaker,
     error_count |-> 0, success_count |-> 0]

\* what the awaited provider operation does: it returns a value, raises
\* ChannelRateLimitError, raises ChannelError, or (authentication failure) marks the
\* channel ERROR and raises ChannelConnectionError
ProviderOutcomes ==
    { [kind |-> "returned", value |-> TRUE, text |-> "", marks_error |-> FALSE],
      [kind |-> "returned", value |-> FALSE, text |-> "", marks_error |-> FALSE],
      [kind |-> "rate_limited", value |-> FALSE, text |-> "rate limit exceeded",
       marks_error |-> FALSE],
      [kind |-> "failed", value |-> FALSE, text |-> "send failed", marks_error |-> FALSE],
      [kind |-> "failed", value |-> FALSE, text |-> "authentication failed",
       marks_error |-> TRUE] }

\* defaults of execute_with_retry
base_delay == 1
max_delay == 60

Min(a, b) == IF a <= b THEN a ELSE b

\* delay = min(base_delay * (2 ** attempt), max_delay)
Delay(attempt) == Min(base_delay * (2 ^ attempt), max_delay)

\* the frame of one execute_with_retry call: its locals, where it is suspended
\* (pc), what it returned or raised, and how many times it invoked the operation
\* and recorded an outcome on the breaker
NewRetry(max_retries) ==
    [pc |-> "start", attempt |-> 0, max_retries |-> max_retries, last_error |-> {},
     wake_at |-> 0, result |-> FALSE, error |-> {}, invoked |-> 0, recorded |-> 0,
     outcome |-> {}]

\* an attempt that invokes the operation without asking the breaker on a retry
BeginAttemptUnchecked(ch, rs, now) ==
    LET r == can_execute(ch.circuit_breaker, now)
    IN  IF ~r.result /\ rs.attempt = 0
        THEN [ch |-> [ch EXCEPT !.circuit_breaker = r.cb],
              rs |-> [rs EXCEPT !.pc = "raised",
                                !.error = {[type |-> "ChannelError", what |-> "blocked",
                                            cause |-> r.cb.state]}]]
        ELSE [ch |-> [ch EXCEPT !.circuit_breaker = r.cb],
              rs |-> [rs EXCEPT !.pc = "operation", !.invoked = @ + 1]]

\* top of the loop body: the breaker is asked, then the operation is invoked
BeginAttempt(ch, rs, now) ==
    LET r == can_execute(ch.circuit_breaker, now)
    IN  IF ~r.result
        THEN [ch |-> [ch EXCEPT !.circuit_breaker = r.cb],
              rs |-> [rs EXCEPT !.pc = "raised",
                                !.error = {[type |-> "ChannelError", what |-> "blocked",
                                            cause |-> r.cb.state]}]]
        ELSE [ch |-> [ch EXCEPT !.circuit_breaker = r.cb],
              rs |-> [rs EXCEPT !.pc = "operation", !.invoked = @ + 1]]

\* the operation returned value
OnSuccess(ch, rs, value) ==
    [ch |-> [ch EXCEPT !.circuit_breaker = record_success(@),
                       !.success_count = @ + 1,
                       !.status = ACTIVE],
     rs |-> [rs EXCEPT !.pc = "returned", !.result = value, !.recorded = @ + 1]]

\* except Exception that forgets to keep the latest error
OnFailureKeepsFirst(ch, rs, text, now) ==
    LET kept == IF rs.last_error = {} THEN {text} ELSE rs.last_error
        failed == [ch EXCEPT !.circuit_breaker = record_failure(@, now),
                             !.error_count = @ + 1]
    IN  IF rs.attempt < rs.max_retries
        THEN [ch |-> failed,
              rs |-> [rs EXCEPT !.pc = "sleeping", !.last_error = kept,
                                !.recorded = @ + 1,
                                !.wake_at = now + Delay(rs.attempt)]]
        ELSE [ch |-> [failed EXCEPT !.status = ERROR],
              rs |-> [rs EXCEPT !.pc = "raised", !.last_error = kept,
                                !.recorded = @ + 1,
                                !.error = {[type |-> "ChannelError", what |-> "exhausted",
                                            cause |-> CHOOSE e \in kept : TRUE]}]]

\* except Exception: a failure is recorded; the call sleeps before the next attempt
\* or, after the last one, marks the channel ERROR and raises
OnFailure(ch, rs, text, now) ==
    LET failed == [ch EXCEPT !.circuit_breaker = record_failure(@, now),
                             !.error_count = @ + 1]
    IN  IF rs.attempt < rs.max_retries
        THEN [ch |-> failed,
              rs |-> [rs EXCEPT !.pc = "sleeping", !.last_error = {text},
                                !.recorded = @ + 1,
                                !.wake_at = now + Delay(rs.attempt)]]
        ELSE [ch |-> [failed EXCEPT !.status = ERROR],
              rs |-> [rs EXCEPT !.pc = "raised", !.last_error = {text},
                                !.recorded = @ + 1,
                                !.error = {[type |-> "ChannelError", what |-> "exhausted",
                                            cause |-> text]}]]

\* a rate limit handled like any other failure
OnRateLimitRetried(ch, rs, text, now) == OnFailure(ch, rs, text, now)

\* except ChannelRateLimitError: a failure is recorded and the error is re-raised
OnRateLimit(ch, rs, text, now) ==
    [ch |-> [ch EXCEPT !.circuit_breaker = record_failure(@, now),
                       !.error_count = @ + 1],
     rs |-> [rs EXCEPT !.pc = "raised", !.recorded = @ + 1,
                       !.error = {[type |-> "ChannelRateLimitError", what |-> "provider",
                                   cause |-> text]}]]

\* the awaited operation ends with outcome at time now
FinishAttempt(ch, rs, outcome, now) ==
    LET marked == IF outcome.marks_error THEN [ch EXCEPT !.status = ERROR] ELSE ch
        seen == [rs EXCEPT !.outcome = {outcome}]
    IN  IF outcome.kind = "returned" THEN OnSuccess(marked, seen, outcome.value)
        ELSE IF outcome.kind = "rate_limited" THEN OnRateLimit(marked, seen, outcome.text, now)
        ELSE OnFailure(marked, seen, outcome.text, now)

\* a loop that does not count its attempts
ResumeRetryUncounted(ch, rs, now) == BeginAttempt(ch, rs, now)

\* asyncio.sleep(delay) is over: the next iteration of the loop
ResumeRetry(ch, rs, now) == BeginAttempt(ch, [rs EXCEPT !.attempt = @ + 1], now)

Suspended == {"operation", "sleeping"}

\* the values of max_retries the callers of the model pass (the channels pass 3)
RetryBudgets == {1, 3}

\* the callers of execute_with_retry: each makes one call, and the calls overlap
RetryCallers == {1, 2}

\* a caller starts execute_with_retry(operation, max_retries) on the channel
ExecuteWithRetry(max_retries) ==
    /\ Len(tasks) < Cardinality(RetryCallers)
    /\ LET r == BeginAttempt(channel_instances[1], NewRetry(max_retries), clock)
       IN  /\ channel_instances' = [channel_instances EXCEPT ![1] = r.ch]
           /\ tasks' = Append(tasks, r.rs)
    /\ UNCHANGED <<clock, ticks, breakerVars, orchestratorVars>>
    /\ UNCHANGED <<feedbackVars, rateVars, sessionVars>>

\* the provider operation of call id ends
OperationEnds(id, outcome) ==
    /\ tasks[id].pc = "operation"
    /\ LET r == FinishAttempt(channel_instances[1], tasks[id], outcome, clock)
       IN  /\ channel_instances' = [channel_instances EXCEPT ![1] = r.ch]
           /\ tasks' = [tasks EXCEPT ![id] = r.rs]
    /\ UNCHANGED <<clock, ticks, breakerVars, orchestratorVars>>
    /\ UNCHANGED <<feedbackVars, rateVars, sessionVars>>

\* the backoff sleep of call id ends, not before its delay has passed
BackoffEnds(id) ==
    /\ tasks[id].pc = "sleeping"
    /\ clock' = Max(clock, tasks[id].wake_at)
    /\ LET r == ResumeRetry(channel_instances[1], tasks[id], clock')
       IN  /\ channel_instances' = [channel_instances EXCEPT ![1] = r.ch]
           /\ tasks' = [tasks EXCEPT ![id] = r.rs]
    /\ UNCHANGED <<ticks, breakerVars, orchestratorVars>>
    /\ UNCHANGED <<feedbackVars, rateVars, sessionVars>>

\* time passes: the breaker's timeout
RetryTickSteps == {timeout_seconds}

TickRetry(d) ==
    /\ ticks < MaxRetryTicks
    /\ clock' = clock + d
    /\ ticks' = ticks + 1
    /\ UNCHANGED <<feedbackVars, rateVars, sessionVars>>
    /\ UNCHANGED <<deliveryVars, sessionVars>>

\* one channel, constructed and not yet used
InitRetry ==
    /\ clock = 0
    /\ ticks = 0
    /\ feedback_requests = <<>>
    /\ feedback_responses = <<>>
    /\ request_responses = <<>>
    /\ last_result = [op |-> "none"]
    /\ calls = 0
    /\ tally = [rid \in RequestIds |-> [first |-> "none", submitted |-> 0, accepted |-> 0]]
    /\ status_writes = [rid \in RequestIds |-> 0]
    /\ rate_limits = <<>>
    /\ accepted_at = <<>>
    /\ last_check = [op |-> "none"]
    /\ reset_hint = <<>>
    /\ checks = 0
    /\ circuit_breaker = CircuitBreaker
    /\ breaker_obs = NoBreakerCall
    /\ breaker_calls = 0
    /\ channel_instances = <<BaseChannel("email")>>
    /\ tasks = <<>>
    /\ user_channels = <<>>
    /\ connected = {}
    /\ delivery_attempts = <<>>
    /\ message_attempts = <<>>
    /\ SessionIdle

NextRetry ==
    \/ \E max_retries \in RetryBudgets : ExecuteWithRetry(max_retries)
    \/ \E id \in DOMAIN tasks, outcome \in ProviderOutcomes : OperationEnds(id, outcome)
    \/ \E id \in DOMAIN tasks : BackoffEnds(id)
    \/ \E d \in RetryTickSteps : TickRetry(d)

SpecRetry == InitRetry /\ [][NextRetry]_vars

-----------------------------------------------------------------------------
(* channels/base_channel.py: the health snapshot of a breaker and of a channel *)

\* CircuitBreaker.get_status() at time now: the dictionary returned and the
\* breaker after the call.  The entries of the dictionary are evaluated in the
\* order they are written: state and failure_count are read before can_execute()
\* is called.
get_status(cb, now) ==
    LET state == cb.state
        failures == cb.failure_count
        last == cb.last_failure_time
        asked == can_execute(cb, now)
    IN  [status |-> [state |-> state, failure_count |-> failures,
                     last_failure_time |-> last, can_execute |-> asked.result],
         cb |-> asked.cb]

\* BaseChannel.get_health_status() at time now
get_health_status(ch, now) ==
    LET breaker == get_status(ch.circuit_breaker, now)
    IN  [health |-> [channel_type |-> ch.channel_type, status |-> ch.status,
                     error_count |-> ch.error_count, success_count |-> ch.success_count,
                     circuit_breaker |-> breaker.status],
         ch |-> [ch EXCEPT !.circuit_breaker = breaker.cb]]

\* the channel that owns the breaker
HealthChannel == [BaseChannel("email") EXCEPT !.status = ACTIVE,
                                              !.circuit_breaker = circuit_breaker]

\* a caller takes the snapshot of the breaker
GetBreakerStatus ==
    /\ breaker_calls < MaxBreakerCalls
    /\ LET r == get_status(circuit_breaker, clock)
       IN  /\ circuit_breaker' = r.cb
           /\ breaker_obs' = [op |-> "get_status", snapshot |-> r.status] @@
                 ObserveBreaker("get_status", r.status.can_execute, circuit_breaker,
                                r.cb, FALSE)
    /\ breaker_calls' = breaker_calls + 1
    /\ UNCHANGED <<clock, ticks, channel_instances, tasks, orchestratorVars>>
    /\ UNCHANGED <<feedbackVars, rateVars, sessionVars>>

\* a caller takes the health snapshot of the channel
GetHealthStatus ==
    /\ breaker_calls < MaxBreakerCalls
    /\ LET r == get_health_status(HealthChannel, clock)
       IN  /\ circuit_breaker' = r.ch.circuit_breaker
           /\ breaker_obs' = [op |-> "get_health_status",
                              snapshot |-> r.health.circuit_breaker] @@
                 ObserveBreaker("get_health_status", r.health.circuit_breaker.can_execute,
                                circuit_breaker, r.ch.circuit_breaker, FALSE)
    /\ breaker_calls' = breaker_calls + 1
    /\ UNCHANGED <<clock, ticks, channel_instances, tasks, orchestratorVars>>
    /\ UNCHANGED <<feedbackVars, rateVars, sessionVars>>

NextHealth ==
    \/ CanExecute
    \/ RecordSuccess
    \/ RecordFailure
    \/ GetBreakerStatus
    \/ GetHealthStatus
    \/ \E d \in BreakerTickSteps : TickBreaker(d)

SpecHealth == Init /\ [][NextHealth]_vars

-----------------------------------------------------------------------------
(* services/channel_orchestrator.py: send_message for one user.  A call runs    *)
(* without suspension up to the awaited provider operation of a channel, and   *)
(* from the end of that operation or of a backoff sleep up to the next one.    *)

Range(seq) == {seq[i] : i \in 1..Len(seq)}

\* self.fallback_priority
fallback_priority == <<"websocket", "slack", "email">>

\* the for loop of _get_channel_priority: every channel of rest not yet in priority
RECURSIVE AddFallback(_, _)
AddFallback(priority, rest) ==
    IF rest = <<>> THEN priority
    ELSE AddFallback(IF Head(rest) \in Range(priority) THEN priority
                     ELSE Append(priority, Head(rest)),
                     Tail(rest))

\* a priority list built without looking at what is already in it
get_channel_priority_all(user_id, preferred_channel, enable_fallback) ==
    IF ~enable_fallback /\ preferred_channel # None
    THEN <<preferred_channel>>
    ELSE (IF preferred_channel # None THEN <<preferred_channel>> ELSE <<>>)
             \o (IF enable_fallback THEN fallback_priority ELSE <<>>)

\* ChannelOrchestrator._get_channel_priority
_get_channel_priority(user_id, preferred_channel, enable_fallback) ==
    IF ~enable_fallback /\ preferred_channel # None
    THEN <<preferred_channel>>
    ELSE LET priority == IF preferred_channel # None THEN <<preferred_channel>> ELSE <<>>
         IN  IF enable_fallback THEN AddFallback(priority, fallback_priority) ELSE priority

\* the objects a send_message call reads and writes
World ==
    [instances |-> channel_instances, cache |-> user_channels,
     attempts |-> delivery_attempts, by_message |-> message_attempts]

\* ChannelOrchestrator._get_or_create_channel: the cached instance while it is
\* ACTIVE, else a new one that replaces it in the cache if initialize() succeeds;
\* channel 0 is None
_get_or_create_channel(w, channel_type) ==
    IF channel_type \in DOMAIN w.cache /\ w.instances[w.cache[channel_type]].status = ACTIVE
    THEN [w |-> w, channel |-> w.cache[channel_type]]
    ELSE IF channel_type \in {"email", "slack"} /\ channel_type \in connected
    THEN LET created == [BaseChannel(channel_type) EXCEPT !.status = ACTIVE]
             at == Len(w.instances) + 1
         IN  [w |-> [w EXCEPT !.instances = Append(@, created),
                              !.cache = (channel_type :> at) @@ @],
              channel |-> at]
    ELSE [w |-> w, channel |-> 0]

\* store.get_message_delivery_attempts(message_id)
get_message_delivery_attempts(w, message_id) ==
    IF message_id \in DOMAIN w.by_message
    THEN [i \in 1..Len(w.by_message[message_id]) |-> w.attempts[w.by_message[message_id][i]]]
    ELSE <<>>

\* store.create_delivery_attempt(attempt)
create_delivery_attempt(w, attempt) ==
    [w EXCEPT !.attempts = (attempt.id :> attempt) @@ @,
              !.by_message = IF attempt.message_id \in DOMAIN @
                             THEN [@ EXCEPT ![attempt.message_id] = Append(@, attempt.id)]
                             ELSE (attempt.message_id :> <<attempt.id>>) @@ @]

\* attempt.status = status (and attempt.error_message) on the stored object,
\* followed by store.create_delivery_attempt(attempt)
RestoreAttempt(w, id, status, error_message) ==
    create_delivery_attempt(
        [w EXCEPT !.attempts[id].status = status,
                  !.attempts[id].error_message = error_message],
        [w.attempts[id] EXCEPT !.status = status, !.error_message = error_message])

\* uuid4() of a new attempt: an id no stored attempt has
NewAttemptId(w) == Cardinality(DOMAIN w.attempts) + 1

\* max_retries passed by GmailChannel.send_message and SlackChannel.send_message
ChannelMaxRetries == 3

\* the frame of a send_message call
NewSend(message_id, preferred_channel, enable_fallback) ==
    [message_id |-> message_id, preferred_channel |-> preferred_channel,
     enable_fallback |-> enable_fallback,
     channels_to_try |-> _get_channel_priority("u1", preferred_channel, enable_fallback),
     at |-> 0, channel |-> 0, attempt_id |-> 0, last_error |-> {},
     retry |-> NewRetry(ChannelMaxRetries), pc |-> "start", result |-> FALSE,
     error |-> {}, tried |-> <<>>]

\* the element of a one-element set
Only(S) == CHOOSE v \in S : TRUE

RECURSIVE SendFrom(_, _, _, _)
RECURSIVE OnChannelError(_, _, _, _)

\* the for loop of send_message from position i of channels_to_try, up to the
\* first awaited provider operation or to the end of the call
SendFrom(objects, frame, i, now) ==
    \* w and task are the values of objects and frame
    Only({ (
        IF i > Len(task.channels_to_try)
        THEN [w |-> w,
              task |-> IF task.last_error # {}
                       THEN [task EXCEPT !.pc = "raised",
                                         !.error = {[type |-> "ChannelError", what |-> "all_failed",
                                                     cause |-> (CHOOSE e \in task.last_error : TRUE).cause]}]
                       ELSE [task EXCEPT !.pc = "returned", !.result = FALSE]]
        ELSE LET channel_type == task.channels_to_try[i]
                 got == _get_or_create_channel(w, channel_type)
             IN  IF channel_type = "websocket" THEN SendFrom(w, task, i + 1, now)
                 ELSE IF got.channel = 0 THEN SendFrom(got.w, task, i + 1, now)
                 ELSE LET asked == can_execute(got.w.instances[got.channel].circuit_breaker, now)
                          w1 == [got.w EXCEPT !.instances[got.channel].circuit_breaker = asked.cb]
                          attempt == [id |-> NewAttemptId(w1),
                                      message_id |-> task.message_id,
                                      channel |-> channel_type,
                                      status |-> SENT,
                                      attempt_number |->
                                          Len(get_message_delivery_attempts(w1, task.message_id)) + 1,
                                      error_message |-> {}]
                          w2 == create_delivery_attempt(w1, attempt)
                          begun == BeginAttempt(w2.instances[got.channel],
                                                NewRetry(ChannelMaxRetries), now)
                          w3 == [w2 EXCEPT !.instances[got.channel] = begun.ch]
                          sending == [task EXCEPT !.at = i, !.channel = got.channel,
                                                  !.attempt_id = attempt.id,
                                                  !.retry = begun.rs,
                                                  !.tried = Append(@, channel_type)]
                      IN  IF ~asked.result THEN SendFrom(w1, task, i + 1, now)
                          ELSE IF begun.rs.pc = "operation"
                          THEN [w |-> w3, task |-> [sending EXCEPT !.pc = "operation"]]
                          ELSE OnChannelError(w3, sending, begun.rs.error, now)
        ) : w \in {objects}, task \in {frame} })

\* an except clause that re-raises whatever enable_fallback says
OnChannelErrorRaises(objects, frame, error, now) ==
    [w |-> RestoreAttempt(objects, frame.attempt_id, FAILED, error),
     task |-> [frame EXCEPT !.last_error = error, !.pc = "raised", !.error = error]]

\* except ChannelError of send_message: the attempt is marked FAILED and stored
\* again, then the error is re-raised or the loop goes on
OnChannelError(objects, frame, error, now) ==
    \* w and task are the values of objects and frame
    Only({ (
        LET e == CHOOSE x \in error : TRUE
            w1 == RestoreAttempt(w, task.attempt_id, FAILED, {e})
            failed == [task EXCEPT !.last_error = error]
        IN  IF ~task.enable_fallback
            THEN [w |-> w1, task |-> [failed EXCEPT !.pc = "raised", !.error = error]]
            ELSE SendFrom(w1, failed, task.at + 1, now)
        ) : w \in {objects}, task \in {frame} })

\* a loop that marks the attempt DELIVERED and goes on to the next channel
AfterRetryGoesOn(w, task, now) ==
    IF task.retry.pc \in Suspended
    THEN [w |-> w, task |-> [task EXCEPT !.pc = task.retry.pc]]
    ELSE IF task.retry.pc = "raised"
    THEN OnChannelError(w, task, task.retry.error, now)
    ELSE IF task.retry.result
    THEN SendFrom(RestoreAttempt(w, task.attempt_id, DELIVERED, {}), task, task.at + 1, now)
    ELSE SendFrom(w, task, task.at + 1, now)

\* send_message after its channel's execute_with_retry moved on: the retry is
\* suspended again, or it returned or raised
AfterRetry(w, task, now) ==
    IF task.retry.pc \in Suspended
    THEN [w |-> w, task |-> [task EXCEPT !.pc = task.retry.pc]]
    ELSE IF task.retry.pc = "raised"
    THEN OnChannelError(w, task, task.retry.error, now)
    ELSE IF task.retry.result
    THEN [w |-> RestoreAttempt(w, task.attempt_id, DELIVERED, {}),
          task |-> [task EXCEPT !.pc = "returned", !.result = TRUE]]
    ELSE SendFrom(w, task, task.at + 1, now)

\* what is left of a call: while it is suspended its whole frame, afterwards its
\* arguments, the channels it recorded an attempt on and what it returned or raised
Frame(task) ==
    IF task.pc \in Suspended THEN task
    ELSE [task EXCEPT !.at = 0, !.channel = 0, !.attempt_id = 0, !.last_error = {},
                      !.retry = NewRetry(ChannelMaxRetries)]

\* the variables after a step of a call that left objects w and frame task
Leave(w, id, task) ==
    /\ channel_instances' = w.instances
    /\ user_channels' = w.cache
    /\ delivery_attempts' = w.attempts
    /\ message_attempts' = w.by_message
    /\ tasks' = IF id \in DOMAIN tasks THEN [tasks EXCEPT ![id] = Frame(task)]
                ELSE Append(tasks, Frame(task))

\* the callers of send_message: each makes one call
Senders == {1}

Messages == {"m1"}

\* a caller starts send_message(message, user, recipient, preferred, fallback)
SendMessage(message_id, preferred_channel, enable_fallback) ==
    /\ Len(tasks) < Cardinality(Senders)
    /\ \E r \in {SendFrom(World, NewSend(message_id, preferred_channel, enable_fallback),
                          1, clock)} :
          Leave(r.w, Len(tasks) + 1, r.task)
    /\ UNCHANGED <<clock, ticks, connected, breakerVars>>
    /\ UNCHANGED <<feedbackVars, rateVars, sessionVars>>

\* the provider operation awaited by call id ends
ProviderReturns(id, outcome) ==
    /\ tasks[id].pc = "operation"
    /\ \E done \in {FinishAttempt(channel_instances[tasks[id].channel], tasks[id].retry,
                                    outcome, clock)} :
          \E r \in {AfterRetry([World EXCEPT !.instances[tasks[id].channel] = done.ch],
                                [tasks[id] EXCEPT !.retry = done.rs], clock)} :
             Leave(r.w, id, r.task)
    /\ UNCHANGED <<clock, ticks, connected, breakerVars>>
    /\ UNCHANGED <<feedbackVars, rateVars, sessionVars>>

\* the backoff sleep of call id ends, not before its delay has passed
SendBackoffEnds(id) ==
    /\ tasks[id].pc = "sleeping"
    /\ clock' = Max(clock, tasks[id].retry.wake_at)
    /\ \E resumed \in {ResumeRetry(channel_instances[tasks[id].channel], tasks[id].retry,
                                     clock')} :
          \E r \in {AfterRetry([World EXCEPT !.instances[tasks[id].channel] = resumed.ch],
                                [tasks[id] EXCEPT !.retry = resumed.rs], clock')} :
             Leave(r.w, id, r.task)
    /\ UNCHANGED <<ticks, connected, breakerVars>>
    /\ UNCHANGED <<feedbackVars, rateVars, sessionVars>>

\* time passes: the breaker's timeout
SendTickSteps == {timeout_seconds}

TickSend(d) ==
    /\ ticks < MaxSendTicks
    /\ clock' = clock + d
    /\ ticks' = ticks + 1
    /\ UNCHANGED <<feedbackVars, rateVars, sessionVars>>
    /\ UNCHANGED <<deliveryVars, sessionVars>>

\* the channels the user has connected: both, or the email channel alone
Connections == {{"email", "slack"}, {"email"}}

\* no channel object exists yet; the user has connected some of the channels
InitSend ==
    /\ clock = 0
    /\ ticks = 0
    /\ feedback_requests = <<>>
    /\ feedback_responses = <<>>
    /\ request_responses = <<>>
    /\ last_result = [op |-> "none"]
    /\ calls = 0
    /\ tally = [rid \in RequestIds |-> [first |-> "none", submitted |-> 0, accepted |-> 0]]
    /\ status_writes = [rid \in RequestIds |-> 0]
    /\ rate_limits = <<>>
    /\ accepted_at = <<>>
    /\ last_check = [op |-> "none"]
    /\ reset_hint = <<>>
    /\ checks = 0
    /\ circuit_breaker = CircuitBreaker
    /\ breaker_obs = NoBreakerCall
    /\ breaker_calls = 0
    /\ channel_instances = <<>>
    /\ tasks = <<>>
    /\ user_channels = <<>>
    /\ connected \in Connections
    /\ delivery_attempts = <<>>
    /\ message_attempts = <<>>
    /\ SessionIdle

NextSend ==
    \/ \E message_id \in Messages, preferred_channel \in ChannelType \cup {None},
          enable_fallback \in BOOLEAN :
          SendMessage(message_id, preferred_channel, enable_fallback)
    \/ \E id \in DOMAIN tasks, outcome \in ProviderOutcomes : ProviderReturns(id, outcome)
    \/ \E id \in DOMAIN tasks : SendBackoffEnds(id)
    \/ \E d \in SendTickSteps : TickSend(d)

SpecSend == InitSend /\ [][NextSend]_vars

\* the event loop resumes a coroutine whose sleep is over, and every provider
\* call returns
SpecSendFair ==
    /\ SpecSend
    /\ WF_vars(\E id \in Senders : id \in DOMAIN tasks /\ SendBackoffEnds(id))
    /\ WF_vars(\E id \in Senders, outcome \in ProviderOutcomes :
                  id \in DOMAIN tasks /\ ProviderReturns(id, outcome))

-----------------------------------------------------------------------------
(* services/channel_orchestrator.py: send_feedback_request for one user.  It    *)
(* records no delivery attempt; its enable_fallback argument is never read.    *)

\* a loop that hands every channel type to a channel constructor
channel_for_any(w, channel_type) ==
    IF channel_type \in DOMAIN w.cache /\ w.instances[w.cache[channel_type]].status = ACTIVE
    THEN [w |-> w, channel |-> w.cache[channel_type]]
    ELSE [w |-> [w EXCEPT !.instances =
                              Append(@, [BaseChannel(channel_type) EXCEPT !.status = ACTIVE]),
                          !.cache = (channel_type :> (Len(w.instances) + 1)) @@ @],
          channel |-> Len(w.instances) + 1]

\* top of the loop body of send_feedback_request: WEBSOCKET is skipped, any other
\* type is looked up or created; channel 0 stands for "continue"
channel_for(w, channel_type) ==
    IF channel_type = "websocket" THEN [w |-> w, channel |-> 0]
    ELSE _get_or_create_channel(w, channel_type)

\* initialize_user_channels: _get_or_create_channel for EMAIL, then for SLACK
initialize_user_channels(w) ==
    _get_or_create_channel(_get_or_create_channel(w, "email").w, "slack").w

\* list(self.user_channels[user_id].keys()): the cached types in the order they
\* were inserted, which is the order of their instances while no type was replaced
Keys(cache) ==
    [i \in 1..Cardinality(DOMAIN cache) |->
        CHOOSE c \in DOMAIN cache :
            Cardinality({d \in DOMAIN cache : cache[d] < cache[c]}) = i - 1]

\* the frame of a send_feedback_request call; requested lists the channels whose
\* request_feedback was awaited, each with how it ended
NewRequest(target_channels) ==
    [target_channels |-> target_channels, at |-> 0, channel |-> 0,
     retry |-> NewRetry(ChannelMaxRetries), pc |-> "start",
     successful_channels |-> <<>>, requested |-> <<>>, error |-> {}]

\* how the awaited request_feedback ended
Note(task, how) ==
    [task EXCEPT !.requested[Len(task.requested)].outcome = how]

RECURSIVE RequestFrom(_, _, _, _)

\* the for loop of send_feedback_request from position i of target_channels, up
\* to the first awaited provider operation or to the return
RequestFrom(objects, frame, i, now) ==
    \* w and task are the values of objects and frame
    Only({ (
        IF i > Len(task.target_channels)
        THEN [w |-> w, task |-> [task EXCEPT !.pc = "returned"]]
        ELSE LET channel_type == task.target_channels[i]
                 got == channel_for(w, channel_type)
             IN  IF got.channel = 0 THEN RequestFrom(got.w, task, i + 1, now)
                 ELSE LET asked == can_execute(got.w.instances[got.channel].circuit_breaker, now)
                          w1 == [got.w EXCEPT !.instances[got.channel].circuit_breaker = asked.cb]
                          begun == BeginAttempt(w1.instances[got.channel],
                                                NewRetry(ChannelMaxRetries), now)
                          w2 == [w1 EXCEPT !.instances[got.channel] = begun.ch]
                          asking == [task EXCEPT
                                        !.at = i, !.channel = got.channel, !.retry = begun.rs,
                                        !.requested = Append(@, [channel |-> channel_type,
                                                                 outcome |-> "pending"])]
                      IN  IF ~asked.result THEN RequestFrom(w1, task, i + 1, now)
                          ELSE IF begun.rs.pc = "operation"
                          THEN [w |-> w2, task |-> [asking EXCEPT !.pc = "requesting"]]
                          ELSE RequestFrom(w2, Note(asking, "raised"), i + 1, now)
        ) : w \in {objects}, task \in {frame} })

\* a loop that returns at the first channel that took the request
RequestAfterRetryStops(w, task, now) ==
    IF task.retry.pc = "operation" THEN [w |-> w, task |-> [task EXCEPT !.pc = "requesting"]]
    ELSE IF task.retry.pc = "sleeping"
    THEN [w |-> w, task |-> [task EXCEPT !.pc = "request_sleeping"]]
    ELSE IF task.retry.pc = "raised"
    THEN RequestFrom(w, Note(task, "raised"), task.at + 1, now)
    ELSE IF task.retry.result
    THEN [w |-> w,
          task |-> [Note(task, "succeeded") EXCEPT
                       !.pc = "returned",
                       !.successful_channels = Append(@, task.target_channels[task.at])]]
    ELSE RequestFrom(w, Note(task, "refused"), task.at + 1, now)

\* send_feedback_request after its channel's execute_with_retry moved on: the
\* retry is suspended again, or it raised (except ChannelError: continue), or it
\* returned and the channel is appended to successful_channels if the value is true
RequestAfterRetry(w, task, now) ==
    IF task.retry.pc = "operation" THEN [w |-> w, task |-> [task EXCEPT !.pc = "requesting"]]
    ELSE IF task.retry.pc = "sleeping"
    THEN [w |-> w, task |-> [task EXCEPT !.pc = "request_sleeping"]]
    ELSE IF task.retry.pc = "raised"
    THEN RequestFrom(w, Note(task, "raised"), task.at + 1, now)
    ELSE IF task.retry.result
    THEN RequestFrom(w, [Note(task, "succeeded") EXCEPT
                            !.successful_channels = Append(@, task.target_channels[task.at])],
                     task.at + 1, now)
    ELSE RequestFrom(w, Note(task, "refused"), task.at + 1, now)

\* what is left of a send_feedback_request call: while it is suspended its whole
\* frame, afterwards its targets, what it requested and what it returned
RequestFrame(task) ==
    IF task.pc \in {"requesting", "request_sleeping"} THEN task
    ELSE [task EXCEPT !.at = 0, !.channel = 0, !.retry = NewRetry(ChannelMaxRetries)]

\* the variables after a step of a send_feedback_request call
LeaveRequest(w, id, task) ==
    /\ channel_instances' = w.instances
    /\ user_channels' = w.cache
    /\ tasks' = IF id \in DOMAIN tasks THEN [tasks EXCEPT ![id] = RequestFrame(task)]
                ELSE Append(tasks, RequestFrame(task))
    /\ UNCHANGED <<delivery_attempts, message_attempts>>

\* feedback_request.channels of the requests the callers pass
RequestedChannels ==
    {<<>>, <<"email">>, <<"slack", "email">>, <<"email", "slack">>, <<"websocket", "email">>}

\* a caller starts send_feedback_request(feedback_request, user, recipient, preferred)
SendFeedbackRequest(channels, preferred_channel) ==
    /\ Len(tasks) < Cardinality(Senders)
    /\ \E given \in {IF channels # <<>> THEN channels
                     ELSE IF preferred_channel # None THEN <<preferred_channel>> ELSE <<>>} :
          \E w \in {IF given = <<>> THEN initialize_user_channels(World) ELSE World} :
             \E r \in {RequestFrom(w, NewRequest(IF given = <<>> THEN Keys(w.cache) ELSE given),
                                   1, clock)} :
                LeaveRequest(r.w, Len(tasks) + 1, r.task)
    /\ UNCHANGED <<clock, ticks, connected, breakerVars>>
    /\ UNCHANGED <<feedbackVars, rateVars, sessionVars>>

\* the provider operation awaited by request_feedback of call id ends
RequestProviderReturns(id, outcome) ==
    /\ tasks[id].pc = "requesting"
    /\ \E done \in {FinishAttempt(channel_instances[tasks[id].channel], tasks[id].retry,
                                    outcome, clock)} :
          \E r \in {RequestAfterRetry([World EXCEPT !.instances[tasks[id].channel] = done.ch],
                                      [tasks[id] EXCEPT !.retry = done.rs], clock)} :
             LeaveRequest(r.w, id, r.task)
    /\ UNCHANGED <<clock, ticks, connected, breakerVars>>
    /\ UNCHANGED <<feedbackVars, rateVars, sessionVars>>

\* the backoff sleep of request_feedback of call id ends
RequestBackoffEnds(id) ==
    /\ tasks[id].pc = "request_sleeping"
    /\ clock' = Max(clock, tasks[id].retry.wake_at)
    /\ \E resumed \in {ResumeRetry(channel_instances[tasks[id].channel], tasks[id].retry,
                                     clock')} :
          \E r \in {RequestAfterRetry([World EXCEPT !.instances[tasks[id].channel] = resumed.ch],
                                      [tasks[id] EXCEPT !.retry = resumed.rs], clock')} :
             LeaveRequest(r.w, id, r.task)
    /\ UNCHANGED <<ticks, connected, breakerVars>>
    /\ UNCHANGED <<feedbackVars, rateVars, sessionVars>>

\* a slack channel after five sends that were rate limited at time 0: still ACTIVE,
\* its breaker OPEN
OpenedSlack ==
    [BaseChannel("slack") EXCEPT
        !.status = ACTIVE, !.error_count = failure_threshold,
        !.circuit_breaker = [state |-> OPEN, failure_count |-> failure_threshold,
                             last_failure_time |-> {0}, half_open_calls |-> 0]]

\* the orchestrator before the call: no channel object yet, or the slack channel
\* of earlier sends in the cache
InitRequest ==
    /\ clock = 0
    /\ ticks = 0
    /\ feedback_requests = <<>>
    /\ feedback_responses = <<>>
    /\ request_responses = <<>>
    /\ last_result = [op |-> "none"]
    /\ calls = 0
    /\ tally = [rid \in RequestIds |-> [first |-> "none", submitted |-> 0, accepted |-> 0]]
    /\ status_writes = [rid \in RequestIds |-> 0]
    /\ rate_limits = <<>>
    /\ accepted_at = <<>>
    /\ last_check = [op |-> "none"]
    /\ reset_hint = <<>>
    /\ checks = 0
    /\ circuit_breaker = CircuitBreaker
    /\ breaker_obs = NoBreakerCall
    /\ breaker_calls = 0
    /\ tasks = <<>>
    /\ connected \in Connections
    /\ \/ channel_instances = <<>> /\ user_channels = <<>>
       \/ /\ "slack" \in connected
          /\ channel_instances = <<OpenedSlack>>
          /\ user_channels = ("slack" :> 1)
    /\ delivery_attempts = <<>>
    /\ message_attempts = <<>>
    /\ SessionIdle

\* the one call is a send_message or a send_feedback_request
NextRequest ==
    \/ NextSend
    \/ \E channels \in RequestedChannels, preferred_channel \in {None, "websocket", "slack"} :
          SendFeedbackRequest(channels, preferred_channel)
    \/ \E id \in DOMAIN tasks, outcome \in ProviderOutcomes :
          RequestProviderReturns(id, outcome)
    \/ \E id \in DOMAIN tasks : RequestBackoffEnds(id)

SpecRequest == InitRequest /\ [][NextRequest]_vars

-----------------------------------------------------------------------------
(* Two send_message calls for one user that overlap: while one call awaits its   *)
(* provider operation or sleeps between attempts, the other one runs.  The     *)
(* calls are those of sync_message_to_channels: one preferred channel, no      *)
(* fallback.                                                                   *)

\* the callers whose calls overlap
SharingSenders == {1, 2}

\* a caller starts send_message while the calls of the others are suspended
SharedSendMessage(message_id, preferred_channel, enable_fallback) ==
    /\ Len(tasks) < Cardinality(SharingSenders)
    /\ \E r \in {SendFrom(World, NewSend(message_id, preferred_channel, enable_fallback),
                          1, clock)} :
          Leave(r.w, Len(tasks) + 1, r.task)
    /\ UNCHANGED <<clock, ticks, connected, breakerVars>>
    /\ UNCHANGED <<feedbackVars, rateVars, sessionVars>>

NextShared ==
    \/ \E message_id \in Messages : SharedSendMessage(message_id, "slack", FALSE)
    \/ \E id \in DOMAIN tasks, outcome \in ProviderOutcomes : ProviderReturns(id, outcome)
    \/ \E id \in DOMAIN tasks : SendBackoffEnds(id)

SpecShared == InitSend /\ [][NextShared]_vars

-----------------------------------------------------------------------------
(* services/session_service.py and services/validation.py: the status of       *)
(* sessions and of messages.  The methods are plain functions, so each call    *)
(* is one step.                                                                *)

\* SessionStatus (ACTIVE has the value of ChannelStatus.ACTIVE, "active")
PAUSED == "paused"
ENDED == "ended"
SessionStatus == {ACTIVE, PAUSED, ENDED}

MAX_CONCURRENT_SESSIONS == 3

SessionIds == 1..MaxSessions
MessageIds == 1..MaxMessages

\* a table in which an ended session can be resumed
session_transition_resumes(current_status, new_status) ==
    LET valid_transitions == [status \in SessionStatus |->
            CASE status = ACTIVE -> {PAUSED, ENDED}
              [] status = PAUSED -> {ACTIVE, ENDED}
              [] status = ENDED -> {ACTIVE}]
    IN  new_status \in valid_transitions[current_status]

\* ChatSessionValidator.validate_status_transition: TRUE when it returns, FALSE
\* when it raises ValidationError
ChatSessionValidator_validate_status_transition(current_status, new_status) ==
    LET valid_transitions == [status \in SessionStatus |->
            CASE status = ACTIVE -> {PAUSED, ENDED}
              [] status = PAUSED -> {ACTIVE, ENDED}
              [] status = ENDED -> {}]
    IN  new_status \in valid_transitions[current_status]

\* a table in which a read message can be sent again
message_transition_resends(current_status, new_status) ==
    LET valid_transitions == [status \in MessageStatus |->
            CASE status = SENT -> {DELIVERED, FAILED}
              [] status = DELIVERED -> {READ}
              [] status = FAILED -> {SENT}
              [] status = READ -> {SENT}]
    IN  new_status \in valid_transitions[current_status]

\* MessageValidator.validate_status_transition: TRUE when it returns, FALSE when
\* it raises ValidationError
MessageValidator_validate_status_transition(current_status, new_status) ==
    LET valid_transitions == [status \in MessageStatus |->
            CASE status = SENT -> {DELIVERED, FAILED}
              [] status = DELIVERED -> {READ}
              [] status = FAILED -> {SENT}
              [] status = READ -> {}]
    IN  new_status \in valid_transitions[current_status]

\* store.get_user_active_sessions(user_id), for the one user of the model
get_user_active_sessions == {id \in DOMAIN sessions : sessions[id].status = ACTIVE}

\* a SessionService call raised ValidationError
Refused(op, id, from, to) ==
    [op |-> op, id |-> id, from |-> from, to |-> to, ok |-> FALSE,
     error |-> "ValidationError"]

\* a SessionService call returned
Done(op, id, from, to) ==
    [op |-> op, id |-> id, from |-> from, to |-> to, ok |-> TRUE, error |-> ""]

\* SessionService.create_session(user, preferred_channel, ...), called while the
\* store holds fewer than most sessions
create_session(preferred_channel, most) ==
    /\ Len(sessions) < most
    /\ IF Cardinality(get_user_active_sessions) >= MAX_CONCURRENT_SESSIONS
       THEN /\ last_update' = Refused("create_session", 0, None, ACTIVE)
            /\ UNCHANGED sessions
       ELSE /\ sessions' = Append(sessions, [status |-> ACTIVE, updated_at |-> clock,
                                             last_active |-> clock,
                                             preferred_channel |-> preferred_channel])
            /\ last_update' = Done("create_session", Len(sessions) + 1, None, ACTIVE)
    /\ UNCHANGED <<clock, ticks, messages, syncVars>>
    /\ UNCHANGED <<feedbackVars, rateVars, deliveryVars>>

CreateSession(preferred_channel) == create_session(preferred_channel, MaxSessions)

\* SessionService.update_session_status(session_id, new_status)
update_session_status(session_id, new_status) ==
    /\ IF session_id \notin DOMAIN sessions
       THEN /\ last_update' = Refused("update_session_status", session_id, None, new_status)
            /\ UNCHANGED sessions
       ELSE IF ~ChatSessionValidator_validate_status_transition(sessions[session_id].status,
                                                                new_status)
       THEN /\ last_update' = Refused("update_session_status", session_id,
                                      sessions[session_id].status, new_status)
            /\ UNCHANGED sessions
       ELSE /\ sessions' = [sessions EXCEPT ![session_id].status = new_status,
                                            ![session_id].updated_at = clock]
            /\ last_update' = Done("update_session_status", session_id,
                                   sessions[session_id].status, new_status)
    /\ UNCHANGED <<clock, ticks, messages, syncVars>>
    /\ UNCHANGED <<feedbackVars, rateVars, deliveryVars>>

UpdateSessionStatus(session_id, new_status) == update_session_status(session_id, new_status)

\* SessionService.end_session(session_id)
EndSession(session_id) == update_session_status(session_id, ENDED)

\* content of the messages callers create: blank or not
MessageContents == {<<" ">>, <<"h", "i">>}

\* MessageType
USER == "user"
AGENT == "agent"
SYSTEM == "system"
MessageType == {USER, AGENT, SYSTEM}

\* store.create_message(message): the message under a new id, the id appended to
\* the list of its session
store_create_message(message) ==
    /\ messages' = Append(messages, message)
    /\ session_messages' =
          [sid \in DOMAIN session_messages \cup {message.session_id} |->
              IF sid = message.session_id
              THEN Append(IF sid \in DOMAIN session_messages
                          THEN session_messages[sid] ELSE <<>>,
                          Len(messages) + 1)
              ELSE session_messages[sid]]

\* SessionService.create_message(session_id, content, message_type, channel),
\* called while the store holds fewer than most messages
create_message(session_id, content, message_type, channel, most) ==
    /\ Len(messages) < most
    /\ IF session_id \notin DOMAIN sessions \/ content = <<>> \/ Strip(content) = <<>>
       THEN /\ last_update' = Refused("create_message", 0, None, SENT)
            /\ UNCHANGED <<sessions, messages, session_messages>>
       ELSE /\ store_create_message([session_id |-> session_id, status |-> SENT,
                                     type |-> message_type, channel |-> channel])
            /\ sessions' = [sessions EXCEPT ![session_id].updated_at = clock,
                                            ![session_id].last_active = clock]
            /\ last_update' = Done("create_message", Len(messages) + 1, None, SENT)
    /\ UNCHANGED <<clock, ticks, channel_subscriptions, last_history, socketVars>>
    /\ UNCHANGED <<feedbackVars, rateVars, deliveryVars>>

CreateMessage(session_id, content) ==
    create_message(session_id, content, USER, "websocket", MaxMessages)

\* SessionService.update_message_status(message_id, new_status)
UpdateMessageStatus(message_id, new_status) ==
    /\ IF message_id \notin DOMAIN messages
       THEN /\ last_update' = Refused("update_message_status", message_id, None, new_status)
            /\ UNCHANGED messages
       ELSE IF ~MessageValidator_validate_status_transition(messages[message_id].status,
                                                            new_status)
       THEN /\ last_update' = Refused("update_message_status", message_id,
                                      messages[message_id].status, new_status)
            /\ UNCHANGED messages
       ELSE /\ messages' = [messages EXCEPT ![message_id].status = new_status]
            /\ last_update' = Done("update_message_status", message_id,
                                   messages[message_id].status, new_status)
    /\ UNCHANGED <<clock, ticks, sessions, syncVars>>
    /\ UNCHANGED <<feedbackVars, rateVars, deliveryVars>>

NextSession ==
    \/ \E preferred_channel \in {"websocket", "email"} : CreateSession(preferred_channel)
    \/ \E session_id \in SessionIds, new_status \in SessionStatus :
          UpdateSessionStatus(session_id, new_status)
    \/ \E session_id \in SessionIds : EndSession(session_id)
    \/ \E session_id \in SessionIds, content \in MessageContents :
          CreateMessage(session_id, content)
    \/ \E message_id \in MessageIds, new_status \in MessageStatus :
          UpdateMessageStatus(message_id, new_status)

SpecSession == Init /\ [][NextSession]_vars

-----------------------------------------------------------------------------
(* The sessions of one user: enough of them to reach the limit of             *)
(* MAX_CONCURRENT_SESSIONS and go one beyond it.                              *)

UserSessionIds == {1, 2, 3, 4}

CreateUserSession == create_session("websocket", Cardinality(UserSessionIds))

NextUserSessions ==
    \/ CreateUserSession
    \/ \E session_id \in UserSessionIds, new_status \in SessionStatus :
          UpdateSessionStatus(session_id, new_status)

SpecUserSessions == Init /\ [][NextUserSessions]_vars

-----------------------------------------------------------------------------
(* services/state_sync.py: the channels subscribed to a session and the       *)
(* switch of a session from one channel to another.  switch_channel is a      *)
(* coroutine without an await, so a call is one step.                          *)

\* StateSyncService.subscribe_channel(session_id, channel_type), on the registry subs
subscribe_channel(subs, session_id, channel_type) ==
    [sid \in DOMAIN subs \cup {session_id} |->
        IF sid = session_id
        THEN (IF sid \in DOMAIN subs THEN subs[sid] ELSE {}) \cup {channel_type}
        ELSE subs[sid]]

\* StateSyncService.unsubscribe_channel(session_id, channel_type)
unsubscribe_channel(subs, session_id, channel_type) ==
    IF session_id \notin DOMAIN subs THEN subs
    ELSE IF subs[session_id] \ {channel_type} = {}
    THEN [sid \in DOMAIN subs \ {session_id} |-> subs[sid]]
    ELSE [subs EXCEPT ![session_id] = @ \ {channel_type}]

\* StateSyncService.get_subscribed_channels(session_id)
get_subscribed_channels(subs, session_id) ==
    IF session_id \in DOMAIN subs THEN subs[session_id] ELSE {}

\* a switch that subscribes the new channel before it unsubscribes the old one
resubscribe_reversed(subs, session_id, old_channel, new_channel) ==
    unsubscribe_channel(subscribe_channel(subs, session_id, new_channel),
                        session_id, old_channel)

\* the registry after switch_channel: old channel out, new channel in
resubscribe(subs, session_id, old_channel, new_channel) ==
    subscribe_channel(unsubscribe_channel(subs, session_id, old_channel),
                      session_id, new_channel)

\* a call returned this value
Returned(op, id, from, to, value) ==
    [op |-> op, id |-> id, from |-> from, to |-> to, ok |-> value, error |-> ""]

SyncSessionIds == {1, 2}
SyncChannels == {"websocket", "email"}

\* StateSyncService.switch_channel(session_id, old_channel, new_channel, user_id)
SwitchChannel(session_id, old_channel, new_channel) ==
    /\ IF session_id \notin DOMAIN sessions
       THEN /\ last_update' = Returned("switch_channel", session_id, old_channel,
                                       new_channel, FALSE)
            /\ UNCHANGED <<sessions, channel_subscriptions>>
       ELSE /\ sessions' = [sessions EXCEPT ![session_id].preferred_channel = new_channel,
                                            ![session_id].updated_at = clock]
            /\ channel_subscriptions' =
                  resubscribe(channel_subscriptions, session_id, old_channel, new_channel)
            /\ last_update' = Returned("switch_channel", session_id, old_channel,
                                       new_channel, TRUE)
    /\ UNCHANGED <<clock, ticks, messages, session_messages, last_history, socketVars>>
    /\ UNCHANGED <<feedbackVars, rateVars, deliveryVars>>

SubscribeChannel(session_id, channel_type) ==
    /\ channel_subscriptions' =
          subscribe_channel(channel_subscriptions, session_id, channel_type)
    /\ UNCHANGED <<clock, ticks, sessions, messages, last_update, session_messages,
                   last_history, socketVars>>
    /\ UNCHANGED <<feedbackVars, rateVars, deliveryVars>>

UnsubscribeChannel(session_id, channel_type) ==
    /\ channel_subscriptions' =
          unsubscribe_channel(channel_subscriptions, session_id, channel_type)
    /\ UNCHANGED <<clock, ticks, sessions, messages, last_update, session_messages,
                   last_history, socketVars>>
    /\ UNCHANGED <<feedbackVars, rateVars, deliveryVars>>

\* one session at most: the other id is the one of an unknown session
CreateSyncSession == create_session("websocket", 1)

CreateSyncMessage(session_id) ==
    create_message(session_id, <<"h", "i">>, USER, "websocket", 1)

SyncTickSteps == {1}

TickSync(d) ==
    /\ ticks < MaxSyncTicks
    /\ clock' = clock + d
    /\ ticks' = ticks + 1
    /\ UNCHANGED <<feedbackVars, rateVars, deliveryVars, sessionVars>>

NextSync ==
    \/ CreateSyncSession
    \/ \E session_id \in SyncSessionIds, new_status \in SessionStatus :
          UpdateSessionStatus(session_id, new_status)
    \/ \E session_id \in SyncSessionIds : CreateSyncMessage(session_id)
    \/ \E session_id \in SyncSessionIds, old \in SyncChannels, new \in SyncChannels :
          SwitchChannel(session_id, old, new)
    \/ \E session_id \in SyncSessionIds, channel_type \in SyncChannels :
          SubscribeChannel(session_id, channel_type)
    \/ \E session_id \in SyncSessionIds, channel_type \in SyncChannels :
          UnsubscribeChannel(session_id, channel_type)
    \/ \E d \in SyncTickSteps : TickSync(d)

SpecSync == Init /\ [][NextSync]_vars

-----------------------------------------------------------------------------
(* services/state_sync.py: the conversation history of a session.  A message  *)
(* is returned as its id; ids are given in the order of store.create_message. *)

\* the last n elements of seq: seq[-n:] for n > 0
LastOf(seq, n) ==
    IF n >= Len(seq) THEN seq ELSE SubSeq(seq, Len(seq) - n + 1, Len(seq))

\* store.get_session_messages(session_id, limit); limit 0 stands for the two
\* values the test "if limit:" takes as false, None and 0
get_session_messages(session_id, limit) ==
    LET message_ids == IF session_id \in DOMAIN session_messages
                       THEN session_messages[session_id] ELSE <<>>
        found == SelectSeq(message_ids, LAMBDA mid : mid \in DOMAIN messages)
    IN  IF limit # 0 THEN LastOf(found, limit) ELSE found

\* a history that keeps only what came over the live socket
get_conversation_history_of_socket(session_id, limit, include_system) ==
    SelectSeq(get_session_messages(session_id, limit),
              LAMBDA m : messages[m].channel = "websocket"
                         /\ (include_system \/ messages[m].type # SYSTEM))

\* StateSyncService.get_conversation_history(session_id, limit, include_system)
get_conversation_history(session_id, limit, include_system) ==
    IF ~include_system
    THEN SelectSeq(get_session_messages(session_id, limit),
                   LAMBDA m : messages[m].type # SYSTEM)
    ELSE get_session_messages(session_id, limit)

HistorySessionIds == {1, 2}
HistoryMessageIds == {1, 2, 3, 4}
HistoryLimits == {0, 2}
HistoryTypes == {USER, SYSTEM}

GetConversationHistory(session_id, limit, include_system) ==
    /\ last_history' = [op |-> "get_conversation_history", session_id |-> session_id,
                        limit |-> limit, include_system |-> include_system,
                        result |-> get_conversation_history(session_id, limit,
                                                            include_system),
                        written |-> Len(messages)]
    /\ UNCHANGED <<clock, ticks, sessions, messages, last_update, session_messages,
                   channel_subscriptions, socketVars>>
    /\ UNCHANGED <<feedbackVars, rateVars, deliveryVars>>

CreateHistorySession == create_session("websocket", Cardinality(HistorySessionIds))

CreateHistoryMessage(session_id, message_type, channel) ==
    create_message(session_id, <<"h", "i">>, message_type, channel,
                   Cardinality(HistoryMessageIds))

NextHistory ==
    \/ CreateHistorySession
    \/ \E session_id \in HistorySessionIds, message_type \in HistoryTypes,
          channel \in SyncChannels :
          CreateHistoryMessage(session_id, message_type, channel)
    \/ \E session_id \in HistorySessionIds, limit \in HistoryLimits,
          include_system \in BOOLEAN :
          GetConversationHistory(session_id, limit, include_system)

SpecHistory == Init /\ [][NextHistory]_vars

-----------------------------------------------------------------------------
(* api/websocket/connection.py: the messages of one live-socket connection.    *)
(* The connection loop awaits each handler, so the handler calls of a          *)
(* connection follow one another; inside handle_message the call of the agent  *)
(* is the place where the session is left in an intermediate state.            *)

\* AgentStatus (ERROR has the value of ChannelStatus.ERROR, "error")
IDLE == "idle"
THINKING == "thinking"
RESPONDING == "responding"
AgentStatus == {IDLE, THINKING, RESPONDING, ERROR}

\* RateLimiter.check_all_limits at time now: whether it returned, the level that
\* raised or was checked last, and the stored timestamps after the call
check_all_limits(rl, user, session, channel, now) ==
    LET u == check_user_limit(rl, user, now, now)
        s == check_session_limit(u.rate_limits, session, now, now)
        c == check_channel_limit(s.rate_limits, channel, user, now, now)
    IN  IF ~u.allowed THEN [allowed |-> FALSE, level |-> u, rate_limits |-> u.rate_limits]
        ELSE IF ~s.allowed
        THEN [allowed |-> FALSE, level |-> s, rate_limits |-> s.rate_limits]
        ELSE [allowed |-> c.allowed, level |-> c, rate_limits |-> c.rate_limits]

\* RateLimitExceeded.__init__: the attributes of the exception object.  The
\* message is handed to Exception.__init__, which keeps it in args; the object
\* has no attribute named message
RateLimitExceeded(level, now) ==
    [args |-> <<"rate limit exceeded">>,
     retry_after |-> level.status.reset_at - now,
     limit |-> level.status.limit,
     remaining |-> level.status.remaining,
     reset_at |-> level.status.reset_at]

\* a frame sent with websocket.send_json
Sent(type, payload) == [type |-> type, payload |-> payload]

ErrorFrame(code) == Sent("error", [code |-> code])

\* the except RateLimitExceeded clause of handle_message: the payload is built
\* from the attributes of e; reading an attribute e does not have raises
\* AttributeError out of the clause
OnRateLimitExceeded(e) ==
    IF {"message", "retry_after", "limit", "remaining", "reset_at"} \subseteq DOMAIN e
    THEN [raised |-> FALSE,
          frame |-> Sent("rate_limit_exceeded",
                         [retry_after |-> e.retry_after, limit |-> e.limit,
                          remaining |-> e.remaining, reset_at |-> e.reset_at])]
    ELSE [raised |-> TRUE, frame |-> Sent("none", <<>>)]

\* SessionService.update_agent_status(session_id, status)
update_agent_status(states, session_id, status) ==
    [sid \in DOMAIN states \cup {session_id} |->
        IF sid = session_id THEN status ELSE states[sid]]

SocketMessageIds == {1, 2, 3, 4}

\* a "start_session" message: handle_start_session, or SESSION_EXISTS
HandleStartSession ==
    /\ socket.pc = "idle"
    /\ IF socket.session_id # 0
       THEN /\ socket' = [socket EXCEPT !.sent = <<ErrorFrame("SESSION_EXISTS")>>]
            /\ UNCHANGED <<sessions, agent_states, last_update>>
       ELSE IF Cardinality(get_user_active_sessions) >= MAX_CONCURRENT_SESSIONS
       THEN /\ socket' = [socket EXCEPT !.sent = <<ErrorFrame("VALIDATION_ERROR")>>]
            /\ last_update' = Refused("create_session", 0, None, ACTIVE)
            /\ UNCHANGED <<sessions, agent_states>>
       ELSE /\ sessions' = Append(sessions, [status |-> ACTIVE, updated_at |-> clock,
                                             last_active |-> clock,
                                             preferred_channel |-> "websocket"])
            /\ last_update' = Done("create_session", Len(sessions) + 1, None, ACTIVE)
            /\ agent_states' = update_agent_status(agent_states, Len(sessions) + 1, IDLE)
            /\ socket' = [socket EXCEPT !.session_id = Len(sessions) + 1,
                                        !.sent = <<Sent("session_started",
                                                        [session_id |-> Len(sessions) + 1])>>]
    /\ UNCHANGED <<clock, ticks, messages, session_messages, channel_subscriptions,
                   last_history>>
    /\ UNCHANGED <<feedbackVars, rateVars, deliveryVars>>

\* a "message" message of the connection's session: handle_message up to the
\* point where it awaits the agent, or to its end
HandleMessage(content, stream) ==
    /\ socket.pc = "idle"
    /\ socket.session_id # 0
    /\ checks < MaxChecks
    /\ Len(messages) + 2 <= Cardinality(SocketMessageIds)
    /\ LET session_id == socket.session_id
           limits == check_all_limits(rate_limits, "u1", "s1", "websocket", clock)
           handled == OnRateLimitExceeded(RateLimitExceeded(limits.level, clock))
       IN  /\ rate_limits' = limits.rate_limits
           /\ IF ~limits.allowed /\ ~handled.raised
              THEN \* the rate-limit frame is sent and the handler returns
                   /\ socket' = [socket EXCEPT !.sent = <<handled.frame>>]
                   /\ UNCHANGED <<sessions, messages, session_messages, agent_states,
                                  last_update>>
              ELSE IF ~limits.allowed
              THEN \* except Exception: the generic error frame, agent status ERROR
                   /\ socket' = [socket EXCEPT !.sent = <<ErrorFrame("MESSAGE_ERROR")>>]
                   /\ agent_states' = update_agent_status(agent_states, session_id, ERROR)
                   /\ UNCHANGED <<sessions, messages, session_messages, last_update>>
              ELSE IF content = <<>> \/ Strip(content) = <<>>
              THEN /\ socket' = [socket EXCEPT !.sent = <<ErrorFrame("INVALID_MESSAGE")>>]
                   /\ UNCHANGED <<sessions, messages, session_messages, agent_states,
                                  last_update>>
              ELSE \* the user message is stored and the agent is called
                   /\ store_create_message([session_id |-> session_id, status |-> SENT,
                                            type |-> USER, channel |-> "websocket"])
                   /\ sessions' = [sessions EXCEPT ![session_id].updated_at = clock,
                                                   ![session_id].last_active = clock]
                   /\ last_update' = Done("create_message", Len(messages) + 1, None, SENT)
                   /\ agent_states' =
                         update_agent_status(agent_states, session_id,
                                             IF stream THEN RESPONDING ELSE THINKING)
                   /\ socket' = [socket EXCEPT
                         !.pc = "agent", !.stream = stream, !.invoked = @ + 1,
                         !.sent = <<Sent("message_received", [message_id |-> Len(messages) + 1]),
                                    Sent("agent_status", [status |-> THINKING])>>
                                  \o (IF stream
                                      THEN <<Sent("agent_status", [status |-> RESPONDING]),
                                             Sent("stream_start", <<>>)>>
                                      ELSE <<>>)]
    /\ checks' = checks + 1
    /\ UNCHANGED <<clock, ticks, accepted_at, last_check, reset_hint,
                   channel_subscriptions, last_history>>
    /\ UNCHANGED <<feedbackVars, deliveryVars>>

\* what the awaited model call gives: a reply, or a blank one that create_message
\* refuses
AgentOutcomes == {"reply", "blank"}

\* the agent call of handle_message ends: process_user_message returns, or the
\* iteration over stream_response is over; the handler runs to its end
AgentReturns(outcome) ==
    /\ socket.pc = "agent"
    /\ LET session_id == socket.session_id
           \* process_user_message stores a SYSTEM message and leaves the status
           \* ERROR when the reply is refused; stream_response stores its fallback
           failed == outcome = "blank" /\ ~socket.stream
       IN  /\ store_create_message([session_id |-> session_id, status |-> SENT,
                                    type |-> IF failed THEN SYSTEM ELSE AGENT,
                                    channel |-> "websocket"])
           /\ sessions' = [sessions EXCEPT ![session_id].updated_at = clock,
                                           ![session_id].last_active = clock]
           /\ last_update' = Done("create_message", Len(messages) + 1, None, SENT)
           /\ agent_states' = update_agent_status(agent_states, session_id,
                                                  IF failed THEN ERROR ELSE IDLE)
           /\ socket' = [socket EXCEPT
                 !.pc = "idle",
                 !.sent = @ \o (IF socket.stream
                                THEN <<Sent("stream_chunk", <<>>), Sent("stream_end", <<>>)>>
                                ELSE <<Sent("message", [id |-> Len(messages) + 1])>>)
                            \o <<Sent("agent_status", [status |-> IDLE])>>]
    /\ UNCHANGED <<clock, ticks, channel_subscriptions, last_history>>
    /\ UNCHANGED <<feedbackVars, rateVars, deliveryVars>>

NextSocket ==
    \/ HandleStartSession
    \/ \E content \in MessageContents, stream \in BOOLEAN : HandleMessage(content, stream)
    \/ \E outcome \in AgentOutcomes : AgentReturns(outcome)

SpecSocket == InitRate /\ [][NextSocket]_vars

-----------------------------------------------------------------------------
(* Properties of the feedback request life cycle *)

\* a submit/process call on request rid returns in this step
Returns(rid) == calls' = calls + 1 /\ last_result'.rid = rid

\* C1 as stated: for any request that two or more responses were submitted to,
\* the first of them finding it PENDING, exactly one submission was accepted and
\* the status changed exactly once.
C1_ExactlyOneAccepted ==
    \A rid \in RequestIds :
        (tally[rid].submitted >= 2 /\ tally[rid].first.pending)
            => (tally[rid].accepted = 1 /\ status_writes[rid] = 1)

\* C1 amended: never more than one submission to a request is accepted and its
\* status never changes more than once; when the first response submitted finds
\* the request PENDING and not past its expiry time and has non-blank content,
\* exactly one submission is accepted and the status changes exactly once
\* whatever the order and the kind of the calls.
C1_FirstValidWins ==
    \A rid \in RequestIds :
        /\ tally[rid].accepted <= 1
        /\ status_writes[rid] <= 1
        /\ (tally[rid].submitted >= 1 /\ tally[rid].first.pending
              /\ ~tally[rid].first.expired /\ ~tally[rid].first.blank)
             => (tally[rid].accepted = 1 /\ status_writes[rid] = 1)

\* two responses were submitted to a live PENDING request: one won, the latest lost
C1_Witness ==
    \E rid \in RequestIds :
        /\ tally[rid].submitted >= 2 /\ tally[rid].first.pending
        /\ ~tally[rid].first.expired /\ ~tally[rid].first.blank
        /\ tally[rid].accepted = 1
        /\ last_result.rid = rid /\ ~last_result.accepted

\* C2: the status of a request leaves PENDING at most once, and a status that is
\* APPROVED, REJECTED or EXPIRED is never changed by any call.
C2_TerminalImmutable ==
    [][\A rid \in DOMAIN feedback_requests :
          /\ feedback_requests[rid].status # PENDING
                => feedback_requests'[rid].status = feedback_requests[rid].status
          /\ status_writes'[rid] <= 1]_vars

\* a response was submitted to a request that had already expired and been swept
C2_Witness ==
    \E rid \in DOMAIN feedback_requests :
        /\ feedback_requests[rid].status = EXPIRED
        /\ tally[rid].submitted >= 1 /\ ~tally[rid].first.pending
        /\ last_result.rid = rid /\ ~last_result.accepted

\* C3: a response submitted, through either call, to a request that is PENDING
\* but past its expiry time flips the request to EXPIRED and is rejected; such a
\* request never becomes APPROVED or REJECTED.
C3_ExpiredIsRejected ==
    [][\A rid \in DOMAIN feedback_requests :
          (feedback_requests[rid].status = PENDING /\ feedback_requests[rid].expires_at < clock)
             => /\ feedback_requests'[rid].status \in {PENDING, EXPIRED}
                /\ Returns(rid) => (feedback_requests'[rid].status = EXPIRED
                                    /\ ~last_result'.accepted)]_vars

\* C4: process_feedback_response on a request that already has a stored response
\* stores the late response (the list of the request's responses grows by one),
\* returns false and leaves the status as it is.
C4_LateResponseStored ==
    [][\A rid \in DOMAIN feedback_requests :
          (Returns(rid) /\ last_result'.op = "process" /\ get_request_responses(rid) # <<>>)
             => /\ Len(request_responses'[rid]) = Len(request_responses[rid]) + 1
                /\ ~last_result'.accepted
                /\ feedback_requests'[rid].status = feedback_requests[rid].status]_vars

\* C5: process_feedback_response with an unknown request id or on a request that
\* is not PENDING returns false and changes neither a request nor the responses.
C5_RejectWithoutMutation ==
    [][\A rid \in RequestIds :
          (Returns(rid) /\ last_result'.op = "process"
             /\ (~Known(rid) \/ feedback_requests[rid].status # PENDING))
             => /\ ~last_result'.accepted
                /\ feedback_requests' = feedback_requests
                /\ feedback_responses' = feedback_responses
                /\ request_responses' = request_responses]_vars

\* process_feedback_response was refused on a request an earlier response resolved
C5_Witness ==
    /\ last_result.op = "process" /\ ~last_result.accepted
    /\ Known(last_result.rid)
    /\ feedback_requests[last_result.rid].status \in {APPROVED, REJECTED}
    /\ tally[last_result.rid].submitted >= 2

\* the two letters are the same up to case
SameLetter(c, d) ==
    c = d \/ \E i \in 1..Len(LowerCase) : {c, d} = {LowerCase[i], UpperCase[i]}

\* the two contents are equal case-insensitively
SameWord(a, b) == Len(a) = Len(b) /\ \A i \in 1..Len(a) : SameLetter(a[i], b[i])

\* the status C6 gives to a content
C6_Expected(content) ==
    IF \E w \in { <<"R", "E", "J", "E", "C", "T">>,
                  <<"R", "E", "J", "E", "C", "T", "E", "D">>,
                  <<"N", "O">> } : SameWord(content, w)
    THEN REJECTED
    ELSE APPROVED

\* C6: when process_feedback_response accepts a response, the new status depends
\* on the content alone: REJECTED for REJECT, REJECTED or NO in any case,
\* APPROVED for APPROVE, APPROVED or YES in any case and for any other content.
C6_StatusFromContent ==
    [][\A rid \in DOMAIN feedback_requests :
          (Returns(rid) /\ last_result'.op = "process" /\ last_result'.accepted)
             => feedback_requests'[rid].status =
                    C6_Expected(feedback_responses'[NewResponseId].content)]_vars

\* process_feedback_response accepted a lower-case "reject"
C6_Witness ==
    /\ last_result.op = "process" /\ last_result.accepted
    /\ feedback_requests[last_result.rid].status = REJECTED
    /\ \E id \in DOMAIN feedback_responses :
          /\ feedback_responses[id].request_id = last_result.rid
          /\ feedback_responses[id].content = <<"r", "e", "j", "e", "c", "t">>

-----------------------------------------------------------------------------
(* Properties of the rate limiter *)

LevelChecks == {"check_user", "check_session", "check_channel", "check_all"}

\* a rate limiter call of kind op returns in this step
Checked(op) == checks' = checks + 1 /\ last_check'.op = op

\* the stored list of a key, empty when the key is not stored
Counter(rl, key) == IF key \in DOMAIN rl THEN rl[key] ELSE <<>>

\* how many stored timestamps of a key count at time t
Counted(rl, key, t) == Len(NewerThan(Counter(rl, key), t - WINDOW_SECONDS))

\* C7: for every key the accepted checks whose timestamps lie in one window of
\* window_seconds never outnumber the limit, and a check that arrives while limit
\* accepted checks are in the window is rejected and reports remaining = 0.
C7_WindowHoldsLimit ==
    /\ \A key \in RateKeys : \A i \in 1..Len(accepted_at[key]) :
          AcceptedInWindow(key, accepted_at[key][i]) <= LimitOf(key)
    /\ last_check.op \in LevelChecks =>
          \A i \in 1..Len(last_check.levels) :
             last_check.levels[i].full =>
                (~last_check.levels[i].allowed /\ last_check.levels[i].remaining = 0)

\* C8: check_all_limits called while the user level is exhausted and the session
\* and channel levels have capacity is rejected at the user level and leaves the
\* session and channel counters as they were.
C8_UserLevelFirst ==
    [][(/\ Checked("check_all")
        /\ Counted(rate_limits, UserKey(last_check'.args[1]), clock) >= USER_LIMIT
        /\ Counted(rate_limits, SessionKey(last_check'.args[2]), clock) < SESSION_LIMIT
        /\ Counted(rate_limits, ChannelKey(last_check'.args[3], last_check'.args[1]), clock)
              < CHANNEL_LIMIT)
       => (/\ ~last_check'.allowed
           /\ last_check'.rejected_by = "user"
           /\ \A key \in {SessionKey(last_check'.args[2]),
                          ChannelKey(last_check'.args[3], last_check'.args[1])} :
                 /\ (key \in DOMAIN rate_limits') = (key \in DOMAIN rate_limits)
                 /\ Counter(rate_limits', key) = Counter(rate_limits, key))]_vars

\* check_all_limits was rejected at the user level with session and channel capacity left
C8_Witness ==
    /\ last_check.op = "check_all" /\ last_check.rejected_by = "user"
    /\ Counted(rate_limits, SessionKey(last_check.args[2]), clock) = SESSION_LIMIT - 1
    /\ Counted(rate_limits, ChannelKey(last_check.args[3], last_check.args[1]), clock)
          < CHANNEL_LIMIT

\* C9: get_status consumes nothing: the stored counters of every level are the
\* same after the call, and so is the answer the next check of each key would get.
C9_GetStatusReadOnly ==
    [][Checked("get_status")
       => (/\ rate_limits' = rate_limits
           /\ \A key \in RateKeys :
              \A t \in {clock', clock' + WINDOW_SECONDS - 1, clock' + WINDOW_SECONDS} :
                 check_rate_limit(rate_limits', key, LimitOf(key), WINDOW_SECONDS, t).allowed
                    = check_rate_limit(rate_limits, key, LimitOf(key), WINDOW_SECONDS, t).allowed)]_vars

\* get_status was called with one unit left at the user level, and reported it
C9_Witness ==
    /\ last_check.op = "get_status"
    /\ last_check.result.user.remaining = 1
    /\ Counted(rate_limits, UserKey(last_check.args[1]), clock) = USER_LIMIT - 1

\* C10: after a check of a key was rejected reporting reset_at = R, and as long as
\* no check of that key was accepted since, a check of the key before time R is
\* rejected and a check at time R or later is allowed.
C10_ResetAtIsExact ==
    last_check.op \in LevelChecks =>
       \A i \in 1..Len(last_check.levels) :
          \A R \in last_check.levels[i].hint :
             /\ last_check.levels[i].at < R => ~last_check.levels[i].allowed
             /\ last_check.levels[i].at >= R => last_check.levels[i].allowed

-----------------------------------------------------------------------------
(* Properties of the circuit breaker *)

\* this step is one call of the named method on the breaker
BreakerCall(op) == breaker_calls' = breaker_calls + 1 /\ breaker_obs'.op = op

\* C11: a CLOSED breaker becomes OPEN exactly in the step that records the
\* failure_threshold-th failure since the last recorded success, a success
\* recorded while CLOSED sets the failure count to 0, and while the breaker is OPEN
\* and less than timeout_seconds have passed since the last recorded failure it
\* stays OPEN and can_execute() returns false.
C11_OpensAtThreshold ==
    [][ /\ circuit_breaker.state = CLOSED =>
              (circuit_breaker'.state = OPEN <=>
                  (BreakerCall("record_failure") /\ breaker_obs'.streak = failure_threshold))
        /\ circuit_breaker.state = CLOSED /\ BreakerCall("record_success") =>
              circuit_breaker'.failure_count = 0 /\ circuit_breaker'.state = CLOSED
        /\ (/\ circuit_breaker.state = OPEN
            /\ \A t \in breaker_obs'.failed_at : clock' - t < timeout_seconds) =>
              /\ circuit_breaker'.state = OPEN
              /\ BreakerCall("can_execute") => ~breaker_obs'.result ]_vars

\* the breaker opened at the threshold and refused a call one second before its
\* timeout
C11_Witness ==
    /\ circuit_breaker.state = OPEN
    /\ breaker_obs.op = "can_execute"
    /\ ~breaker_obs.result
    /\ breaker_obs.streak = failure_threshold
    /\ \E t \in breaker_obs.failed_at : clock - t = timeout_seconds - 1

\* C12: can_execute() on an OPEN breaker whose last recorded failure is at least
\* timeout_seconds old returns true and leaves the breaker HALF_OPEN with the probe
\* counter at 0; can_execute() on a HALF_OPEN breaker changes nothing of it.
C12_HalfOpenOnce ==
    [][ BreakerCall("can_execute") =>
          /\ (/\ circuit_breaker.state = OPEN
              /\ \E t \in breaker_obs.failed_at : clock - t >= timeout_seconds) =>
                /\ breaker_obs'.result
                /\ circuit_breaker'.state = HALF_OPEN
                /\ circuit_breaker'.half_open_calls = 0
          /\ circuit_breaker.state = HALF_OPEN => circuit_breaker' = circuit_breaker ]_vars

\* the breaker became HALF_OPEN exactly timeout_seconds after the failure and was
\* asked again afterwards
C12_Witness ==
    /\ circuit_breaker.state = HALF_OPEN
    /\ breaker_obs.op = "can_execute"
    /\ breaker_obs.admitted >= 2
    /\ \E t \in breaker_obs.failed_at : clock - t = timeout_seconds

\* C13: once half_open_max_calls calls have been admitted since the breaker became
\* HALF_OPEN and no outcome moved its state, can_execute() returns false.
C13_ProbesBounded ==
    [][ (/\ BreakerCall("can_execute")
         /\ circuit_breaker.state = HALF_OPEN
         /\ breaker_obs.admitted >= half_open_max_calls) => ~breaker_obs'.result ]_vars

\* C14: on a HALF_OPEN breaker record_success() leaves it CLOSED with failure count
\* 0 and record_failure() leaves it OPEN, and from that failure on can_execute()
\* returns false until timeout_seconds have passed.
C14_FirstOutcomeDecides ==
    [][ /\ circuit_breaker.state = HALF_OPEN /\ BreakerCall("record_success") =>
              circuit_breaker'.state = CLOSED /\ circuit_breaker'.failure_count = 0
        /\ circuit_breaker.state = HALF_OPEN /\ BreakerCall("record_failure") =>
              circuit_breaker'.state = OPEN /\ breaker_obs'.reopened_at = {clock}
        /\ (/\ BreakerCall("can_execute")
            /\ \E t \in breaker_obs.reopened_at : clock - t < timeout_seconds) =>
              ~breaker_obs'.result /\ circuit_breaker'.state = OPEN ]_vars

\* a probe failed and the reopened breaker refused a call one second before its
\* timeout
C14_Witness ==
    /\ circuit_breaker.state = OPEN
    /\ breaker_obs.op = "can_execute"
    /\ ~breaker_obs.result
    /\ \E t \in breaker_obs.reopened_at : clock - t = timeout_seconds - 1

-----------------------------------------------------------------------------
(* Properties of execute_with_retry *)

\* the frame of call id before this step (a call that starts in this step has
\* invoked and recorded nothing yet)
FrameBefore(id) == IF id \in DOMAIN tasks THEN tasks[id] ELSE NewRetry(0)

\* call id reaches the top of the retry loop in this step: it starts, or its
\* backoff sleep ends
BeginsAttempt(id) ==
    \/ id \notin DOMAIN tasks
    \/ tasks[id].pc = "sleeping" /\ tasks'[id] # tasks[id]

\* the awaited operation of call id ends in this step
EndsAttempt(id) == id \in DOMAIN tasks /\ tasks[id].pc = "operation" /\ tasks'[id].pc # "operation"

\* the outcome of the operation that ended last in the frame
LastOutcome(frame) == CHOOSE o \in frame.outcome : TRUE

\* C15: every attempt of execute_with_retry, the first and the retries, asks the
\* breaker first: the operation is invoked only when can_execute() is true, and
\* when it is false the call raises ChannelError without invoking anything and
\* makes no further attempt; every ended operation records exactly one outcome on
\* the breaker, and nothing else records one.
C15_BreakerGatesEveryAttempt ==
    [][ \A id \in DOMAIN tasks' :
          LET before == FrameBefore(id)
              after == tasks'[id]
              ch == channel_instances[1]
              allowed == can_execute(ch.circuit_breaker, clock').result
          IN  /\ BeginsAttempt(id) =>
                    IF allowed
                    THEN after.pc = "operation" /\ after.invoked = before.invoked + 1
                    ELSE /\ after.pc = "raised"
                         /\ \E e \in after.error : e.type = "ChannelError" /\ e.what = "blocked"
                         /\ after.invoked = before.invoked
              /\ after.invoked # before.invoked => BeginsAttempt(id) /\ allowed
              /\ EndsAttempt(id) =>
                    /\ after.recorded = before.recorded + 1
                    /\ channel_instances'[1].circuit_breaker \in
                          {record_success(ch.circuit_breaker),
                           record_failure(ch.circuit_breaker, clock)}
                    /\ channel_instances'[1].success_count + channel_instances'[1].error_count
                          = ch.success_count + ch.error_count + 1
              /\ after.recorded # before.recorded => EndsAttempt(id)
              /\ after.invoked = after.recorded + (IF after.pc = "operation" THEN 1 ELSE 0)
              /\ before.pc \in {"raised", "returned"} => after = before ]_vars

\* a call was blocked by the breaker on a retry, after operations it had invoked
C15_Witness ==
    \E id \in DOMAIN tasks :
        /\ tasks[id].pc = "raised"
        /\ tasks[id].attempt > 0
        /\ tasks[id].invoked = tasks[id].attempt
        /\ \E e \in tasks[id].error : e.what = "blocked"

\* C16: when the operation raises ChannelRateLimitError the call records one
\* failure on the breaker and raises that same error in the same step, whatever
\* the retries left; the operation is not invoked again by that call.
C16_RateLimitNotRetried ==
    [][ \A id \in DOMAIN tasks :
          LET before == tasks[id]
              after == tasks'[id]
              ch == channel_instances[1]
          IN  /\ (EndsAttempt(id) /\ LastOutcome(after).kind = "rate_limited") =>
                    /\ after.pc = "raised"
                    /\ after.error = {[type |-> "ChannelRateLimitError", what |-> "provider",
                                       cause |-> LastOutcome(after).text]}
                    /\ after.recorded = before.recorded + 1
                    /\ channel_instances'[1].circuit_breaker.failure_count
                          = ch.circuit_breaker.failure_count + 1
                    /\ channel_instances'[1].circuit_breaker.last_failure_time = {clock}
              /\ before.pc = "raised" => after.invoked = before.invoked /\ after.pc = "raised" ]_vars

\* a rate limit ended a call that had retries left, on a retry
C16_Witness ==
    \E id \in DOMAIN tasks :
        /\ tasks[id].pc = "raised"
        /\ \E e \in tasks[id].error : e.type = "ChannelRateLimitError"
        /\ tasks[id].attempt > 0
        /\ tasks[id].attempt < tasks[id].max_retries

\* C17: when the last of the max_retries + 1 attempts fails with a retryable error
\* the call ends in that step with the channel status ERROR and a ChannelError
\* naming that last failure; an operation that returns ends the call with the
\* channel status ACTIVE and its value as the result, without another attempt.
C17_ExhaustionMarksError ==
    [][ \A id \in DOMAIN tasks :
          LET before == tasks[id]
              after == tasks'[id]
              o == LastOutcome(after)
          IN  EndsAttempt(id) =>
                /\ (o.kind = "failed" /\ before.attempt = before.max_retries) =>
                      /\ after.pc = "raised"
                      /\ after.error = {[type |-> "ChannelError", what |-> "exhausted",
                                         cause |-> o.text]}
                      /\ after.invoked = before.max_retries + 1
                      /\ channel_instances'[1].status = ERROR
                /\ o.kind = "returned" =>
                      /\ after.pc = "returned"
                      /\ after.result = o.value
                      /\ after.invoked = before.invoked
                      /\ channel_instances'[1].status = ACTIVE ]_vars

\* all four attempts of a call failed and it raised naming the last failure
C17_Witness ==
    \E id \in DOMAIN tasks :
        /\ tasks[id].pc = "raised"
        /\ tasks[id].max_retries = 3
        /\ tasks[id].invoked = 4
        /\ \E e \in tasks[id].error : e.what = "exhausted" /\ e.cause = "send failed"
        /\ channel_instances[1].status = ERROR

-----------------------------------------------------------------------------
(* Properties of the orchestrator *)

Finished == {"returned", "raised"}

NoDuplicates(seq) == \A i, j \in 1..Len(seq) : seq[i] = seq[j] => i = j

\* C18: every send_message call that was started returns or raises, given that
\* every provider call returns and every sleep ends; on the way one
\* execute_with_retry invokes the operation at most max_retries + 1 times and no
\* channel is tried twice by one call.
C18_SendTerminates ==
    /\ \A id \in Senders :
          (id \in DOMAIN tasks) ~> (id \in DOMAIN tasks /\ tasks[id].pc \in Finished)
    /\ [](\A id \in DOMAIN tasks :
              /\ tasks[id].retry.invoked <= ChannelMaxRetries + 1
              /\ NoDuplicates(tasks[id].tried))

\* a call gave up after both channels had been tried
C18_Witness ==
    \E id \in DOMAIN tasks :
        /\ tasks[id].pc = "raised"
        /\ Len(tasks[id].tried) = 2
        /\ \E e \in tasks[id].error : e.what = "all_failed"

\* the fixed order without the preferred channel
FixedOrderWithout(preferred_channel) ==
    SelectSeq(<<"websocket", "slack", "email">>, LAMBDA c : c # preferred_channel)

\* C19: the priority list of a call is [preferred] when fallback is disabled and a
\* preferred channel is given; with fallback enabled it is the preferred channel
\* (if given) followed by the channels of [websocket, slack, email] not already
\* listed, and no channel appears twice.
C19_ChannelPriority ==
    \A id \in DOMAIN tasks :
        LET t == tasks[id]
            given == t.preferred_channel # None
        IN  /\ (~t.enable_fallback /\ given) => t.channels_to_try = <<t.preferred_channel>>
            /\ t.enable_fallback =>
                  /\ NoDuplicates(t.channels_to_try)
                  /\ t.channels_to_try =
                        IF given
                        THEN <<t.preferred_channel>> \o FixedOrderWithout(t.preferred_channel)
                        ELSE <<"websocket", "slack", "email">>

\* a call with fallback preferred a channel that is not the first of the fixed order
C19_Witness ==
    \E id \in DOMAIN tasks :
        /\ tasks[id].enable_fallback
        /\ tasks[id].preferred_channel = "email"
        /\ tasks[id].channels_to_try = <<"email", "websocket", "slack">>

\* C20: when a call with fallback recorded attempts on channels A then B, A's send
\* raised ChannelError and the call returned success, the delivery history of the
\* message holds exactly two attempts: A with status FAILED, then B with status
\* DELIVERED.
C20_FallbackHistory ==
    \A id \in DOMAIN tasks :
        LET t == tasks[id]
            history == get_message_delivery_attempts(World, t.message_id)
        IN  (/\ t.pc = "returned" /\ t.result
             /\ t.enable_fallback
             /\ Len(t.tried) = 2
             /\ delivery_attempts[1].status = FAILED) =>
                /\ Len(history) = 2
                /\ history[1].channel = t.tried[1] /\ history[1].status = FAILED
                /\ history[2].channel = t.tried[2] /\ history[2].status = DELIVERED

\* the attempts made for the message of attempt k before attempt k was made
PriorAttempts(k) ==
    {j \in 1..(k - 1) : delivery_attempts[j].message_id = delivery_attempts[k].message_id}

\* C21: every delivery attempt of a message carries the number of attempts made
\* for that message before it, plus 1.
C21_AttemptNumbers ==
    \A k \in DOMAIN delivery_attempts :
        delivery_attempts[k].attempt_number = Cardinality(PriorAttempts(k)) + 1

\* C22: a stored delivery attempt never changes its status or its error text.
C22_AppendOnly ==
    [][\A k \in DOMAIN delivery_attempts :
          /\ delivery_attempts'[k].status = delivery_attempts[k].status
          /\ delivery_attempts'[k].error_message = delivery_attempts[k].error_message]_vars

\* the provider accepted the message
Accepted == [kind |-> "returned", value |-> TRUE, text |-> "", marks_error |-> FALSE]

\* C23: when the send of a call's channel succeeds, the attempt is marked DELIVERED
\* and the call returns True in the same step: no channel is initialised, no
\* attempt is created and no channel is added to those the call tried; a call
\* never has more than one DELIVERED attempt.
C23_StopsAtSuccess ==
    [][\A id \in DOMAIN tasks :
          ProviderReturns(id, Accepted) =>
              /\ delivery_attempts'[tasks[id].attempt_id].status = DELIVERED
              /\ tasks'[id].pc = "returned" /\ tasks'[id].result
              /\ tasks'[id].tried = tasks[id].tried
              /\ Len(channel_instances') = Len(channel_instances)
              /\ user_channels' = user_channels
              /\ DOMAIN delivery_attempts' = DOMAIN delivery_attempts
              /\ Cardinality({k \in DOMAIN delivery_attempts' :
                                 delivery_attempts'[k].status = DELIVERED}) <= Len(tasks')]_vars

\* a call delivered through slack and left the connected email channel alone
C23_Witness ==
    \E id \in DOMAIN tasks :
        /\ tasks[id].pc = "returned" /\ tasks[id].result
        /\ tasks[id].channels_to_try = <<"websocket", "slack", "email">>
        /\ tasks[id].tried = <<"slack">>
        /\ "email" \in connected
        /\ delivery_attempts[1].status = DELIVERED

\* the errors execute_with_retry raises to call id in this step: the provider
\* operation ended with a rate limit or with the last failure, or the breaker
\* refused the attempt after a sleep
RaisedTo(id) ==
    LET ch == channel_instances[tasks[id].channel]
        ended == {FinishAttempt(ch, tasks[id].retry, outcome, clock).rs :
                     outcome \in {o \in ProviderOutcomes : ProviderReturns(id, o)}}
        resumed == IF SendBackoffEnds(id)
                   THEN {ResumeRetry(ch, tasks[id].retry, clock').rs} ELSE {}
    IN  UNION {rs.error : rs \in {r \in ended \cup resumed : r.pc = "raised"}}

\* channel_type can be initialised for the user and its breaker permits execution
Usable(channel_type, now) ==
    LET got == _get_or_create_channel(World, channel_type)
    IN  /\ got.channel # 0
        /\ can_execute(got.w.instances[got.channel].circuit_breaker, now).result

\* the positions after from of the candidates send_message can use
UsableAfter(task, from, now) ==
    {i \in (from + 1)..Len(task.channels_to_try) : Usable(task.channels_to_try[i], now)}

\* C24: when the send of a call's channel raises ChannelError, the attempt is stored
\* FAILED with the error text; with fallback disabled the call raises that error and
\* records no other attempt; with fallback enabled the error is not raised and the
\* next usable channel of the priority list is attempted.
C24_FallbackSwitch ==
    [][\A id \in DOMAIN tasks :
          tasks[id].pc \in Suspended =>
             \A e \in RaisedTo(id) :
                LET t == tasks[id]
                    later == UsableAfter(t, t.at, clock')
                IN  /\ delivery_attempts'[t.attempt_id].status = FAILED
                    /\ delivery_attempts'[t.attempt_id].error_message = {e}
                    /\ ~t.enable_fallback =>
                          /\ tasks'[id].pc = "raised" /\ tasks'[id].error = {e}
                          /\ tasks'[id].tried = t.tried
                          /\ DOMAIN delivery_attempts' = DOMAIN delivery_attempts
                    /\ t.enable_fallback =>
                          /\ tasks'[id].error # {e}
                          /\ later # {} =>
                                LET next == CHOOSE i \in later : \A j \in later : i <= j
                                IN  /\ tasks'[id].tried = Append(t.tried, t.channels_to_try[next])
                                    /\ Len(delivery_attempts') = Len(delivery_attempts) + 1]_vars

\* without fallback the preferred slack channel failed and the call raised its error,
\* leaving the connected email channel alone
C24_Witness ==
    \E id \in DOMAIN tasks :
        /\ tasks[id].pc = "raised" /\ ~tasks[id].enable_fallback
        /\ tasks[id].preferred_channel = "slack"
        /\ "email" \in connected
        /\ Len(delivery_attempts) = 1
        /\ delivery_attempts[1].status = FAILED
        /\ delivery_attempts[1].error_message = tasks[id].error

\* C25: a finished call that did not deliver raised ChannelError if it attempted at
\* least one channel, and returned False only if it attempted none.
C25_TerminalError ==
    \A id \in DOMAIN tasks :
        LET t == tasks[id]
        IN  (t.pc \in Finished /\ ~(t.pc = "returned" /\ t.result)) =>
                /\ t.tried # <<>> => t.pc = "raised" /\ t.error # {}
                /\ (t.pc = "returned" /\ ~t.result) => t.tried = <<>>

-----------------------------------------------------------------------------
(* Properties of send_feedback_request and of both calls *)

\* C26: no delivery attempt names the websocket channel, no channel object of that
\* type exists for a provider operation to be invoked on, and no call counts it
\* among the channels it attempted or requested, whatever was preferred or requested.
C26_NoLiveSocket ==
    /\ \A k \in DOMAIN delivery_attempts : delivery_attempts[k].channel # "websocket"
    /\ \A k \in DOMAIN channel_instances : channel_instances[k].channel_type # "websocket"
    /\ \A id \in DOMAIN tasks :
          IF "requested" \in DOMAIN tasks[id]
          THEN \A k \in DOMAIN tasks[id].requested :
                  tasks[id].requested[k].channel # "websocket"
          ELSE "websocket" \notin Range(tasks[id].tried)

\* a request for websocket and email went to email alone
C26_Witness ==
    \E id \in DOMAIN tasks :
        /\ "requested" \in DOMAIN tasks[id]
        /\ tasks[id].pc = "returned"
        /\ tasks[id].target_channels = <<"websocket", "email">>
        /\ tasks[id].requested = <<[channel |-> "email", outcome |-> "succeeded"]>>

\* send_feedback_request would use channel_type now: the type is not WEBSOCKET, a
\* channel is cached or can be initialised, and its breaker permits execution
Permitted(channel_type, now) ==
    LET got == channel_for(World, channel_type)
    IN  /\ got.channel # 0
        /\ can_execute(got.w.instances[got.channel].circuit_breaker, now).result

\* C27: each step of a send_feedback_request call passes over target channels only
\* if they are not permitted and stops at the first permitted one, whose
\* request_feedback it awaits, however the previous channel ended; the call never
\* raises, and a channel is added to the returned list exactly when its
\* request_feedback returned a true value.
C27_AllRequested ==
    [][\A id \in DOMAIN tasks' :
          ("requested" \in DOMAIN tasks'[id] /\ (id \in DOMAIN tasks => tasks'[id] # tasks[id])) =>
             LET new == tasks'[id]
                 started == id \in DOMAIN tasks
                 from == IF started THEN tasks[id].at ELSE 0
                 to == IF new.pc = "returned" THEN Len(new.target_channels) + 1 ELSE new.at
                 before == IF started THEN tasks[id].requested ELSE <<>>
                 took == IF started THEN tasks[id].successful_channels ELSE <<>>
                 accepted == started /\ RequestProviderReturns(id, Accepted)
             IN  /\ new.pc # "raised" /\ new.error = {}
                 /\ new.successful_channels =
                       IF accepted THEN Append(took, new.target_channels[from]) ELSE took
                 /\ Len(new.requested) = Len(before) + (IF to \in (from + 1)..Len(new.target_channels)
                                                        THEN 1 ELSE 0)
                 /\ \A j \in (from + 1)..(to - 1) : ~Permitted(new.target_channels[j], clock')
                 /\ to \in (from + 1)..Len(new.target_channels) =>
                       /\ Permitted(new.target_channels[to], clock')
                       /\ new.requested[Len(new.requested)] =
                             [channel |-> new.target_channels[to], outcome |-> "pending"]]_vars

\* the request to slack raised, the request to email was made all the same and
\* succeeded, and the call returned email alone
C27_Witness ==
    \E id \in DOMAIN tasks :
        /\ "requested" \in DOMAIN tasks[id]
        /\ tasks[id].pc = "returned"
        /\ tasks[id].target_channels = <<"slack", "email">>
        /\ tasks[id].requested = <<[channel |-> "slack", outcome |-> "raised"],
                                   [channel |-> "email", outcome |-> "succeeded"]>>
        /\ tasks[id].successful_channels = <<"email">>

-----------------------------------------------------------------------------
(* Properties of overlapping calls *)

\* C28: every call that is using a channel uses the instance the cache holds for
\* that channel type, so all calls of the user share one instance per type.
C28_OneInstance ==
    \A id \in DOMAIN tasks :
        tasks[id].pc \in Suspended =>
            LET channel_type == channel_instances[tasks[id].channel].channel_type
            IN  /\ channel_type \in DOMAIN user_channels
                /\ user_channels[channel_type] = tasks[id].channel

-----------------------------------------------------------------------------
(* Properties of session and message status *)

\* the session status changes that are allowed
SessionMoves ==
    {<<ACTIVE, PAUSED>>, <<PAUSED, ACTIVE>>, <<ACTIVE, ENDED>>, <<PAUSED, ENDED>>}

\* C29: an update_session_status call on an existing session succeeds and sets the
\* requested status exactly when the change is ACTIVE <-> PAUSED or ACTIVE/PAUSED ->
\* ENDED; any other request, and any request on an ENDED session, raises
\* ValidationError and leaves the session as it was; an ENDED session stays ENDED.
C29_SessionStatus ==
    [][\A session_id \in DOMAIN sessions :
          /\ sessions[session_id].status = ENDED => sessions'[session_id].status = ENDED
          /\ \A new_status \in SessionStatus :
                UpdateSessionStatus(session_id, new_status) =>
                    IF <<sessions[session_id].status, new_status>> \in SessionMoves
                    THEN /\ sessions'[session_id].status = new_status
                         /\ last_update'.ok
                    ELSE /\ sessions' = sessions
                         /\ ~last_update'.ok
                         /\ last_update'.error = "ValidationError"]_vars

\* a request to resume an ended session was refused
C29_Witness ==
    /\ last_update.op = "update_session_status"
    /\ last_update.from = ENDED /\ last_update.to = ACTIVE
    /\ ~last_update.ok
    /\ sessions[last_update.id].status = ENDED

\* the message status changes that are allowed
MessageMoves ==
    {<<SENT, DELIVERED>>, <<SENT, FAILED>>, <<DELIVERED, READ>>, <<FAILED, SENT>>}

\* C30: an update_message_status call on an existing message succeeds and sets the
\* requested status exactly when the change is SENT -> DELIVERED, SENT -> FAILED,
\* DELIVERED -> READ or FAILED -> SENT; any other request raises ValidationError and
\* leaves the message as it was.
C30_MessageStatus ==
    [][\A message_id \in DOMAIN messages :
          /\ messages[message_id].status = READ => messages'[message_id].status = READ
          /\ \A new_status \in MessageStatus :
                UpdateMessageStatus(message_id, new_status) =>
                    IF <<messages[message_id].status, new_status>> \in MessageMoves
                    THEN /\ messages'[message_id].status = new_status
                         /\ last_update'.ok
                    ELSE /\ messages' = messages
                         /\ ~last_update'.ok
                         /\ last_update'.error = "ValidationError"]_vars

\* a request to send a read message again was refused
C30_Witness ==
    /\ last_update.op = "update_message_status"
    /\ last_update.from = READ /\ last_update.to = SENT
    /\ ~last_update.ok
    /\ messages[last_update.id].status = READ

-----------------------------------------------------------------------------
(* Properties of the sessions of one user *)

\* C31: whatever create_session and update_session_status calls were made,
\* pausing and resuming included, at most MAX_CONCURRENT_SESSIONS sessions of
\* the user are ACTIVE.
C31_AtMostThreeActive ==
    Cardinality(get_user_active_sessions) <= MAX_CONCURRENT_SESSIONS

-----------------------------------------------------------------------------
(* Properties of the channel switch *)

\* C32: a switch_channel call on a known session returns True and leaves the
\* new channel subscribed, the old one (when it is another channel) not
\* subscribed, the preferred channel set to the new one and the subscriptions
\* of the other sessions as they were; on an unknown session it returns False
\* and leaves the registry unchanged.
C32_SwitchChannel ==
    [][\A session_id \in SyncSessionIds, old \in SyncChannels, new \in SyncChannels :
          SwitchChannel(session_id, old, new) =>
             IF session_id \in DOMAIN sessions
             THEN /\ last_update'.ok
                  /\ new \in get_subscribed_channels(channel_subscriptions', session_id)
                  /\ old # new =>
                        old \notin get_subscribed_channels(channel_subscriptions', session_id)
                  /\ sessions'[session_id].preferred_channel = new
                  /\ \A other \in SyncSessionIds \ {session_id} :
                        get_subscribed_channels(channel_subscriptions', other)
                           = get_subscribed_channels(channel_subscriptions, other)
             ELSE /\ ~last_update'.ok
                  /\ channel_subscriptions' = channel_subscriptions]_vars

\* a session was switched from its only subscribed channel to another one while
\* the unknown session has a subscription of its own
C32_Witness ==
    /\ last_update.op = "switch_channel"
    /\ last_update.ok
    /\ last_update.from # last_update.to
    /\ get_subscribed_channels(channel_subscriptions, last_update.id) = {last_update.to}
    /\ sessions[last_update.id].preferred_channel = last_update.to
    /\ \E other \in SyncSessionIds \ {last_update.id} :
          get_subscribed_channels(channel_subscriptions, other) # {}

\* C37: a create_message or switch_channel call on a session whose status is
\* ENDED changes none of the session's fields.
C37_EndedNeverUpdated ==
    [][\A session_id \in SyncSessionIds :
          ( /\ session_id \in DOMAIN sessions
            /\ sessions[session_id].status = ENDED
            /\ \/ CreateSyncMessage(session_id)
               \/ \E old \in SyncChannels, new \in SyncChannels :
                     SwitchChannel(session_id, old, new) )
          => sessions'[session_id] = sessions[session_id]]_vars

-----------------------------------------------------------------------------
(* Properties of the conversation history *)

\* the messages of a session that a history with this option has to hold
Expected(session_id, include_system) ==
    {m \in DOMAIN messages :
        /\ messages[m].session_id = session_id
        /\ include_system \/ messages[m].type # SYSTEM}

\* C33: a get_conversation_history call without a limit returns the messages of
\* the session, of every channel, each once and in the order they were stored;
\* without system messages it returns that sequence less the SYSTEM-typed
\* ones; and a call repeated with no message stored in between returns what
\* the call before it returned.
C33_History ==
    [][\A session_id \in HistorySessionIds, include_system \in BOOLEAN :
          GetConversationHistory(session_id, 0, include_system) =>
             LET result == last_history'.result
                 full == get_conversation_history(session_id, 0, TRUE)
             IN  /\ Range(result) = Expected(session_id, include_system)
                 /\ \A i \in DOMAIN result, j \in DOMAIN result :
                       i < j => result[i] < result[j]
                 /\ result = SelectSeq(full, LAMBDA m : include_system
                                                        \/ messages[m].type # SYSTEM)
                 /\ ( /\ last_history.op = "get_conversation_history"
                      /\ last_history.session_id = session_id
                      /\ last_history.limit = 0
                      /\ last_history.include_system = include_system
                      /\ last_history.written = Len(messages) )
                    => result = last_history.result]_vars

\* a history without system messages of a session that holds messages of two
\* channels with a system message among them, next to another session's message
C33_Witness ==
    /\ last_history.op = "get_conversation_history"
    /\ last_history.limit = 0
    /\ ~last_history.include_system
    /\ last_history.written = Len(messages)
    /\ Len(last_history.result) = 2
    /\ messages[last_history.result[1]].channel # messages[last_history.result[2]].channel
    /\ \E m \in DOMAIN messages :
          messages[m].session_id = last_history.session_id /\ messages[m].type = SYSTEM
    /\ \E m \in DOMAIN messages : messages[m].session_id # last_history.session_id

-----------------------------------------------------------------------------
(* Properties of the breaker across orchestrator calls *)

\* the channel objects built so far for a channel type
InstancesOf(channel_type) ==
    {i \in DOMAIN channel_instances : channel_instances[i].channel_type = channel_type}

RECURSIVE SumErrors(_)
\* the failed provider calls counted by the channel objects in S
SumErrors(S) ==
    IF S = {} THEN 0
    ELSE LET i == CHOOSE x \in S : TRUE
         IN  channel_instances[i].error_count + SumErrors(S \ {i})

\* failure_threshold or more provider calls on the channel type failed, none
\* succeeded, and the latest failure is less than timeout_seconds before now
StillFailing(channel_type, now) ==
    /\ SumErrors(InstancesOf(channel_type)) >= failure_threshold
    /\ \A i \in InstancesOf(channel_type) :
          /\ channel_instances[i].success_count = 0
          /\ \A t \in channel_instances[i].circuit_breaker.last_failure_time :
                now - t < timeout_seconds

\* call id invokes the provider operation in this step
BeginsProviderCall(id) ==
    /\ tasks'[id].pc = "operation"
    /\ id \in DOMAIN tasks => tasks'[id] # tasks[id]

\* no call other than id is suspended: the calls are made one after the other
Alone(id) == \A other \in DOMAIN tasks \ {id} : tasks[other].pc \notin Suspended

\* once failure_threshold provider calls in a row on a channel type have failed,
\* no call invokes the provider on that type before timeout_seconds have passed
C34_NoCallWhileFailing ==
    [][\A id \in DOMAIN tasks' :
          (Alone(id) /\ BeginsProviderCall(id)) =>
             ~StillFailing(channel_instances'[tasks'[id].channel].channel_type, clock')]_vars

\* the channel object cached for a type is replaced by another one only when its
\* breaker is CLOSED and has no failure counted
C34_NoFailingReplaced ==
    [][\A id \in DOMAIN tasks', channel_type \in DOMAIN user_channels :
          (Alone(id) /\ user_channels'[channel_type] # user_channels[channel_type]) =>
             LET old == channel_instances[user_channels[channel_type]].circuit_breaker
             IN  old.state = CLOSED /\ old.failure_count = 0]_vars

\* C34: with send_message calls made one after the other, once failure_threshold
\* provider calls in a row on a channel type have failed, no call invokes the
\* provider on that type before timeout_seconds have passed, and a channel
\* object with failures counted is never replaced in the cache by a new one.
C34_BreakerSurvives ==
    [][\A id \in DOMAIN tasks' :
          Alone(id) =>
             /\ BeginsProviderCall(id) =>
                   ~StillFailing(channel_instances'[tasks'[id].channel].channel_type,
                                 clock')
             /\ \A channel_type \in DOMAIN user_channels :
                   user_channels'[channel_type] # user_channels[channel_type] =>
                      LET old == channel_instances[user_channels[channel_type]].circuit_breaker
                      IN  old.state = CLOSED /\ old.failure_count = 0]_vars

\* C35: when the send_message call has returned or raised, every delivery attempt
\* it recorded is DELIVERED or FAILED; none is left SENT.
C35_FinalStatus ==
    \A id \in DOMAIN tasks :
        tasks[id].pc \in Finished =>
            \A a \in DOMAIN delivery_attempts :
                delivery_attempts[a].message_id = tasks[id].message_id =>
                    delivery_attempts[a].status \in {DELIVERED, FAILED}

-----------------------------------------------------------------------------
(* Properties of the two resolution paths *)

\* C36: two requests of one type whose first responses have the same content, one
\* submitted through submit_feedback_response and the other through
\* process_feedback_response, end in the same status.
C36_PathsAgree ==
    \A r1 \in DOMAIN feedback_responses, r2 \in DOMAIN feedback_responses :
        ( /\ feedback_responses[r1].request_id = 1
          /\ feedback_responses[r2].request_id = 2
          /\ feedback_responses[r1].content = feedback_responses[r2].content )
        => feedback_requests[1].status = feedback_requests[2].status

-----------------------------------------------------------------------------
(* Properties of the health snapshot *)

\* C38: get_status and get_health_status leave the breaker's state, failure count
\* and probe counter as they were, and a snapshot reports can_execute true only
\* together with the state closed or half_open.
C38_SnapshotReadOnly ==
    [][(GetBreakerStatus \/ GetHealthStatus) =>
          /\ circuit_breaker'.state = circuit_breaker.state
          /\ circuit_breaker'.failure_count = circuit_breaker.failure_count
          /\ circuit_breaker'.half_open_calls = circuit_breaker.half_open_calls
          /\ breaker_obs'.snapshot.can_execute =>
                breaker_obs'.snapshot.state \in {CLOSED, HALF_OPEN}]_vars

-----------------------------------------------------------------------------
(* Properties of a rejected check_all_limits call *)

\* C39: a check_all_limits call that raises RateLimitExceeded, at whichever level,
\* leaves the count of every level (the stored timestamps that lie in the window
\* when the call ends) as it was before the call.
C39_RejectedNotCounted ==
    [][(Checked("check_all") /\ ~last_check'.allowed) =>
          \A key \in {UserKey(last_check'.args[1]), SessionKey(last_check'.args[2]),
                       ChannelKey(last_check'.args[3], last_check'.args[1])} :
             Counted(rate_limits', key, clock') = Counted(rate_limits, key, clock')]_vars

-----------------------------------------------------------------------------
(* Properties of the live-socket handler *)

\* the rate limiter rejects a message that arrives now
Limited == ~check_all_limits(rate_limits, "u1", "s1", "websocket", clock).allowed

\* C40: a message the rate limiter rejects stores no Message, does not call the
\* agent, leaves the agent status of the session as it was, and is answered with
\* one rate_limit_exceeded frame that carries limit, remaining, reset_at and
\* retry_after.
C40_RejectedMessage ==
    [][\A content \in MessageContents, stream \in BOOLEAN :
          (Limited /\ HandleMessage(content, stream)) =>
             /\ messages' = messages
             /\ session_messages' = session_messages
             /\ socket'.invoked = socket.invoked
             /\ socket'.pc = "idle"
             /\ agent_states' = agent_states
             /\ Len(socket'.sent) = 1
             /\ socket'.sent[1].type = "rate_limit_exceeded"
             /\ {"limit", "remaining", "reset_at", "retry_after"}
                   \subseteq DOMAIN socket'.sent[1].payload]_vars

====
